---- MODULE Spec2Model ----
(***************************************************************************)
(* Blood-donation coordination service: the certificate lifecycle of the   *)
(* backend (donationController.generateCertificate, certificateController, *)
(* models/Certificate.js) and the client's revoke path                     *)
(* (project/src/lib/certificateService.ts).                                *)
(*                                                                         *)
(* The database is the only shared state.  generateCertificate is split at *)
(* its awaits, so two requests interleave exactly where the Node event     *)
(* loop lets them.  Referenced documents are taken to exist: no user,      *)
(* donor or donation is deleted while a request or certificate refers to   *)
(* it.                                                                     *)
(***************************************************************************)
EXTENDS Integers, FiniteSets, Sequences, TLC

(* ------------------------------ bounds --------------------------------- *)
MaxTime == 1         \* the clock runs 0..MaxTime
MaxRegen == 1        \* regenerations per certificate
MaxDownloads == 1    \* recorded downloads per certificate

VARIABLES
  now,           \* the clock read by new Date() / Date.now
  donations,     \* the Donation collection: id -> document or NoDoc
  certificates,  \* the Certificate collection: a set of documents
  procs,         \* generateCertificate requests in flight, per slot
  resp,          \* the HTTP response of the last single-step request
  donors,        \* the Donor collection: id -> document or NoDoc
  requests,      \* the BloodRequest collection: id -> document or NoDoc
  comp,          \* the completeDonation request in flight
  notified,      \* the notification emails about blood requests delivered
  parked,        \* a second completeDonation request, suspended at an await
  calls,         \* other requests in flight, per slot
  inventory      \* the BloodInventory collection: id -> document or NoDoc

matchVars == <<donors, requests, comp, notified, parked, calls, inventory>>
vars == <<now, donations, certificates, procs, resp, donors, requests, comp,
          notified, parked, calls, inventory>>

(* ------------------------------ universe ------------------------------- *)
Users == {"u1", "u2", "admin"}
role(u) == IF u = "admin" THEN "admin" ELSE "user"
fullName(u) == <<"name", u>>

DonationIds == {"d1", "d2"}
NoDoc == [absent |-> TRUE]
NoBody == [empty |-> TRUE]
NoResp == [op |-> "none", arg |-> "none", status |-> 0, body |-> NoBody]
None == "none"

\* the completeDonation slot when no request is in flight
IdleComp == [pc |-> "idle", donation |-> None, donor |-> [absent |-> TRUE],
             request |-> [absent |-> TRUE], result |-> 0]

\* a request slot that handles nothing
IdleCall == [op |-> None, pc |-> "idle", user |-> None, result |-> 0]

CallSlots == {1, 2}

\* no second completion, no other request in flight, an empty inventory
NoSide ==
  /\ parked = IdleComp
  /\ calls = [s \in CallSlots |-> IdleCall]
  /\ inventory = <<>>

\* empty Donor and BloodRequest collections, no completion in flight
NoMatching ==
  /\ donors = <<>>
  /\ requests = <<>>
  /\ comp = IdleComp
  /\ notified = {}
  /\ NoSide

DonationStatus == {"scheduled", "completed", "cancelled", "rejected", "processing"}
OverallResult == {"safe", "unsafe", "pending"}
CertificateStatus == {"draft", "issued", "revoked", "expired"}
Platforms == {"facebook", "twitter", "linkedin", "instagram"}

\* values the ID generators of the pre-save hook can produce
CertIdSpace == {"CERT-1", "CERT-2"}
CodeSpace == {"K1", "K2"}

\* request inputs
StatusInputs == {"completed", "cancelled"}
ResultInputs == {"safe", "unsafe"}
CodeInputs == CodeSpace \cup {"K9"}
ShareInputs == {<<"facebook", "true">>, <<"myspace", None>>, <<None, "false">>}
Reasons == {<<>>, <<" ">>, <<"f">>}

\* request slots running generateCertificate concurrently
Procs == {1, 2}

(* ------------------------------ documents ------------------------------ *)
\* Donation document as created by createDonation with the schema defaults
NewDonation(owner, details) ==
  [absent |-> FALSE, donorUser |-> owner, details |-> details,
   status |-> "scheduled", overallResult |-> "pending",
   certificateGenerated |-> FALSE, certificateId |-> None]

Exists(d) == d \in DonationIds /\ ~donations[d].absent

CompletedAndSafe(don) == don.status = "completed" /\ don.overallResult = "safe"

NoSnapshot == [status |-> None, overallResult |-> None]

IdleProc ==
  [pc |-> "idle", user |-> None, donation |-> None, seen |-> NoSnapshot,
   found |-> None, cert |-> 0, result |-> 0, error |-> None]

\* The payload certificateSchema.methods.generateQRCode serialises; donorName
\* is this.donor.fullName, undefined while donor is an unpopulated ObjectId.
QRData(c, donorName) ==
  [certificateId |-> c.certificateId, verificationCode |-> c.verificationCode,
   donorName |-> donorName, donationDetails |-> c.donationDetails]

NoQR == [unset |-> TRUE]

\* A new Certificate document: the schema defaults, the fields passed by
\* generateCertificate and the IDs the pre-save hook generates.
NewCertificate(oid, user, d, details, cid, code) ==
  [_id |-> oid, certificateId |-> cid, verificationCode |-> code,
   donor |-> user, donation |-> d, donationDetails |-> details,
   status |-> "issued", generatedAt |-> now, version |-> 10,
   qrCode |-> NoQR, downloadCount |-> 0, lastDownloaded |-> -1,
   isPubliclyShared |-> FALSE, socialMediaShared |-> {},
   shareableLink |-> None]

\* faulty variant: the unique index on verificationCode is missing
DuplicateKey_NoCodeIndex(certs, doc) ==
  \E c \in certs :
     \/ c.certificateId = doc.certificateId
     \/ c.donation = doc.donation

\* faulty variant: the unique index on donation is missing
DuplicateKey_NoDonationIndex(certs, doc) ==
  \E c \in certs :
     \/ c.certificateId = doc.certificateId
     \/ c.verificationCode = doc.verificationCode

\* The unique indexes of the Certificate collection: TRUE when inserting doc
\* would violate one of them (E11000).
DuplicateKey(certs, doc) ==
  \E c \in certs :
     \/ c.certificateId = doc.certificateId
     \/ c.verificationCode = doc.verificationCode
     \/ c.donation = doc.donation

\* Certificate.findById
FindById(oid) == {c \in certificates : c._id = oid}

\* Replace document c of the collection by its saved version
Save(c, saved) == (certificates \ {c}) \cup {saved}

Finish(p, status, error) ==
  [procs[p] EXCEPT !.pc = "done", !.result = status, !.error = error]

(* ----------------- donationController.generateCertificate -------------- *)
\* faulty variant: the completed-and-safe check comes before the authorization check
IssueDecision_PreconditionFirst(d, u) ==
  IF ~Exists(d) THEN <<404, "Donation not found">>
  ELSE IF ~CompletedAndSafe(donations[d]) THEN <<400, "not completed and safe">>
  ELSE IF donations[d].donorUser # u THEN <<403, "Not authorized">>
  ELSE <<0, "continue">>

\* The checks made on the donation that findById returned, in source order
IssueDecision(d, u) ==
  IF ~Exists(d) THEN <<404, "Donation not found">>
  ELSE IF donations[d].donorUser # u THEN <<403, "Not authorized">>
  ELSE IF ~CompletedAndSafe(donations[d]) THEN <<400, "not completed and safe">>
  ELSE <<0, "continue">>

\* await Donation.findById(...) and the checks up to the next await
generateCertificate_find(p, u, d) ==
  /\ procs[p].pc = "idle"
  /\ LET dec == IssueDecision(d, u)
         seen == IF Exists(d)
                 THEN [status |-> donations[d].status,
                       overallResult |-> donations[d].overallResult]
                 ELSE NoSnapshot
         started == [IdleProc EXCEPT !.user = u, !.donation = d, !.seen = seen]
     IN procs' = [procs EXCEPT ![p] =
                    IF dec[1] = 0
                    THEN [started EXCEPT !.pc = "lookup"]
                    ELSE [started EXCEPT !.pc = "done", !.result = dec[1],
                                         !.error = dec[2]]]
  /\ resp' = NoResp
  /\ UNCHANGED <<now, donations, certificates, matchVars>>

\* await Certificate.findOne({ donation }) and the already-exists check
generateCertificate_lookup(p) ==
  /\ procs[p].pc = "lookup"
  /\ LET existing == {c \in certificates : c.donation = procs[p].donation}
     IN procs' = [procs EXCEPT ![p] =
                    IF existing # {}
                    THEN [Finish(p, 400, "already exists") EXCEPT !.found = "existing"]
                    ELSE [procs[p] EXCEPT !.pc = "create", !.found = "null"]]
  /\ resp' = NoResp
  /\ UNCHANGED <<now, donations, certificates, matchVars>>

\* The response of the catch block when Certificate.create rejects
CreateRejected == <<500, "Server error while generating certificate">>

\* await Certificate.create(...): pre-save hook, then the insert
generateCertificate_create(p, cid, code) ==
  /\ procs[p].pc = "create"
  /\ LET d == procs[p].donation
         doc == NewCertificate(Cardinality(certificates) + 1, procs[p].user, d,
                               donations[d].details, cid, code)
     IN IF DuplicateKey(certificates, doc)
        THEN /\ procs' = [procs EXCEPT ![p] =
                            Finish(p, CreateRejected[1], CreateRejected[2])]
             /\ UNCHANGED certificates
        ELSE /\ certificates' = certificates \cup {doc}
             /\ procs' = [procs EXCEPT ![p] =
                            [procs[p] EXCEPT !.pc = "qr", !.cert = doc._id]]
  /\ resp' = NoResp
  /\ UNCHANGED <<now, donations, matchVars>>

\* await certificate.generateQRCode(): donor is not populated here
generateCertificate_qr(p) ==
  /\ procs[p].pc = "qr"
  /\ \E c \in FindById(procs[p].cert) :
        certificates' = Save(c, [c EXCEPT !.qrCode = QRData(c, None)])
  /\ procs' = [procs EXCEPT ![p] = [procs[p] EXCEPT !.pc = "mark"]]
  /\ resp' = NoResp
  /\ UNCHANGED <<now, donations, matchVars>>

\* donation.certification.* = ...; await donation.save()
generateCertificate_mark(p) ==
  /\ procs[p].pc = "mark"
  /\ \E c \in FindById(procs[p].cert) :
        donations' = [donations EXCEPT ![procs[p].donation] =
                        [@ EXCEPT !.certificateGenerated = TRUE,
                                  !.certificateId = c.certificateId]]
  /\ procs' = [procs EXCEPT ![p] = [procs[p] EXCEPT !.pc = "email"]]
  /\ resp' = NoResp
  /\ UNCHANGED <<now, certificates, matchVars>>

\* try { await sendCertificateEmail } catch { log }; res.status(201)
generateCertificate_email(p, delivered) ==
  /\ procs[p].pc = "email"
  /\ procs' = [procs EXCEPT ![p] =
                 Finish(p, 201, IF delivered THEN "issued" ELSE "email failed")]
  /\ resp' = NoResp
  /\ UNCHANGED <<now, donations, certificates, matchVars>>

\* the slot takes the next request
Reset(p) ==
  /\ procs[p].pc = "done"
  /\ procs' = [procs EXCEPT ![p] = IdleProc]
  /\ resp' = NoResp
  /\ UNCHANGED <<now, donations, certificates, matchVars>>

(* ------------------- donationController, admin routes ------------------ *)
\* updateDonation: Object.assign(donation, updates); await donation.save()
updateDonation(d, status, overall) ==
  /\ Exists(d)
  /\ donations' = [donations EXCEPT ![d] =
       [@ EXCEPT !.status = IF status = None THEN @ ELSE status,
                 !.overallResult = IF overall = None THEN @ ELSE overall]]
  /\ resp' = NoResp
  /\ UNCHANGED <<now, certificates, procs, matchVars>>

\* addTestResults: testResults = {...testResults, ...body}; await save()
addTestResults(d, overall) ==
  /\ Exists(d)
  /\ donations' = [donations EXCEPT ![d] = [@ EXCEPT !.overallResult = overall]]
  /\ resp' = NoResp
  /\ UNCHANGED <<now, certificates, procs, matchVars>>

(* ------------------------- certificateController ----------------------- *)
\* what the caller of a single-step request sees
Response(op, arg, status, body) ==
  [op |-> op, arg |-> arg, status |-> status, body |-> body]

\* certificate.donor._id.toString() !== req.user.id && role !== 'admin'
OwnerOrAdmin(c, u) == c.donor = u \/ role(u) = "admin"

\* faulty variant: the query only leaves out revoked certificates
verifyCertificateQuery_NotRevoked(certs, code) ==
  {c \in certs : c.verificationCode = code /\ c.status # "revoked"}

\* Certificate.verifyCertificate: findOne({ verificationCode, status: 'issued' })
verifyCertificateQuery(certs, code) ==
  {c \in certs : c.verificationCode = code /\ c.status = "issued"}

\* the reduced view verifyCertificate returns
verificationData(c) ==
  [isValid |-> TRUE, certificateId |-> c.certificateId,
   donorName |-> fullName(c.donor), donationDetails |-> c.donationDetails,
   issuedDate |-> c.generatedAt, status |-> c.status]

NotFoundOrInvalid ==
  [status |-> 404, success |-> FALSE,
   message |-> "Certificate not found or invalid verification code"]

\* faulty variant: a revoked certificate gets a message of its own
verifyResponses_RevokedMessage(certs, code) ==
  IF verifyCertificateQuery(certs, code) = {}
  THEN IF \E c \in certs : c.verificationCode = code /\ c.status = "revoked"
       THEN {[status |-> 404, success |-> FALSE,
              message |-> "Certificate has been revoked"]}
       ELSE {NotFoundOrInvalid}
  ELSE {[status |-> 200, success |-> TRUE, verification |-> verificationData(c)] :
          c \in verifyCertificateQuery(certs, code)}

\* the responses verifyCertificate can give for a code on a collection
verifyResponses(certs, code) ==
  IF verifyCertificateQuery(certs, code) = {}
  THEN {NotFoundOrInvalid}
  ELSE {[status |-> 200, success |-> TRUE, verification |-> verificationData(c)] :
          c \in verifyCertificateQuery(certs, code)}

\* GET /api/certificates/verify/:verificationCode (public)
verifyCertificate(code) ==
  /\ \E r \in verifyResponses(certificates, code) :
        resp' = Response("verify", code, r.status, r)
  /\ UNCHANGED <<now, donations, certificates, procs, matchVars>>

\* certificateSchema.methods.recordDownload
recordDownload(c) ==
  [c EXCEPT !.downloadCount = @ + 1, !.lastDownloaded = now]

\* GET /api/certificates/:id/download
downloadCertificate(u, oid) ==
  /\ IF FindById(oid) = {}
     THEN /\ resp' = Response("download", None, 404, NoBody)
          /\ UNCHANGED certificates
     ELSE \E c \in FindById(oid) :
            IF ~OwnerOrAdmin(c, u)
            THEN /\ resp' = Response("download", None, 403, NoBody)
                 /\ UNCHANGED certificates
            ELSE /\ c.downloadCount < MaxDownloads
                 /\ certificates' = Save(c, recordDownload(c))
                 /\ resp' = Response("download", None, 200,
                                     [downloadCount |-> c.downloadCount + 1])
  /\ UNCHANGED <<now, donations, procs, matchVars>>

\* faulty variant: regeneration puts the certificate back to 'issued'
regenerated_Reissue(c) ==
  LET stamped == [c EXCEPT !.generatedAt = now, !.version = @ + 1,
                           !.status = "issued"]
  IN [stamped EXCEPT !.qrCode = QRData(stamped, fullName(c.donor))]

\* faulty variant: regeneration draws a new verification code
regenerated_NewCode(c) ==
  LET stamped == [c EXCEPT !.generatedAt = now, !.version = @ + 1,
                           !.verificationCode =
                              CHOOSE k \in CodeSpace : k # c.verificationCode]
  IN [stamped EXCEPT !.qrCode = QRData(stamped, fullName(c.donor))]

\* faulty variant: regeneration draws a new certificate id
regenerated_NewCertificateId(c) ==
  LET stamped == [c EXCEPT !.generatedAt = now, !.version = @ + 1,
                           !.certificateId =
                              CHOOSE i \in CertIdSpace : i # c.certificateId]
  IN [stamped EXCEPT !.qrCode = QRData(stamped, fullName(c.donor))]

\* regenerateCertificate's update: new generatedAt, version + 0.1 (kept in
\* tenths: "1.0" is 10), QR payload rebuilt with the populated donor
regenerated(c) ==
  LET stamped == [c EXCEPT !.generatedAt = now, !.version = @ + 1]
  IN [stamped EXCEPT !.qrCode = QRData(stamped, fullName(c.donor))]

\* POST /api/certificates/:id/regenerate
regenerateCertificate(u, oid) ==
  /\ IF FindById(oid) = {}
     THEN /\ resp' = Response("regenerate", None, 404, NoBody)
          /\ UNCHANGED certificates
     ELSE \E c \in FindById(oid) :
            IF ~OwnerOrAdmin(c, u)
            THEN /\ resp' = Response("regenerate", None, 403, NoBody)
                 /\ UNCHANGED certificates
            ELSE /\ c.version < 10 + MaxRegen
                 /\ certificates' = Save(c, regenerated(c))
                 /\ resp' = Response("regenerate", None, 200, NoBody)
  /\ UNCHANGED <<now, donations, procs, matchVars>>

\* shareCertificate's update of the sharing settings
shared(c, platform, isPublic) ==
  [c EXCEPT
     !.isPubliclyShared = IF isPublic = "true" THEN TRUE
                          ELSE IF isPublic = "false" THEN FALSE ELSE @,
     !.socialMediaShared = IF platform \in Platforms THEN @ \cup {platform} ELSE @,
     !.shareableLink = IF @ = None THEN c.verificationCode ELSE @]

\* POST /api/certificates/:id/share (only the donor, not the admin)
shareCertificate(u, oid, platform, isPublic) ==
  /\ IF FindById(oid) = {}
     THEN /\ resp' = Response("share", None, 404, NoBody)
          /\ UNCHANGED certificates
     ELSE \E c \in FindById(oid) :
            IF c.donor # u
            THEN /\ resp' = Response("share", None, 403, NoBody)
                 /\ UNCHANGED certificates
            ELSE /\ certificates' = Save(c, shared(c, platform, isPublic))
                 /\ resp' = Response("share", None, 200, NoBody)
  /\ UNCHANGED <<now, donations, procs, matchVars>>

\* POST /api/certificates/:id/send-email: the send is awaited, a failure is a 500
sendCertificateEmailEndpoint(u, oid, delivered) ==
  /\ resp' = Response("send-email", None,
                      IF FindById(oid) = {} THEN 404
                      ELSE IF \E c \in FindById(oid) : ~OwnerOrAdmin(c, u) THEN 403
                      ELSE IF delivered THEN 200 ELSE 500, NoBody)
  /\ UNCHANGED <<now, donations, certificates, procs, matchVars>>

Tick ==
  /\ now < MaxTime
  /\ now' = now + 1
  /\ resp' = NoResp
  /\ UNCHANGED <<donations, certificates, procs, matchVars>>

(* ------------------ client: revoking a certificate --------------------- *)
\* the routes certificateRoutes.js registers under /api/certificates
CertificateRoutes ==
  {<<"GET", "/verify/:verificationCode">>, <<"GET", "/stats">>, <<"GET", "/">>,
   <<"GET", "/my-certificates">>, <<"GET", "/:id">>, <<"GET", "/:id/download">>,
   <<"POST", "/:id/regenerate">>, <<"POST", "/:id/share">>,
   <<"POST", "/:id/send-email">>}

\* String.prototype.trim on a string given as its sequence of characters
RECURSIVE TrimLeft(_)
TrimLeft(s) == IF s # <<>> /\ Head(s) = " " THEN TrimLeft(Tail(s)) ELSE s

RECURSIVE TrimRight(_)
TrimRight(s) ==
  IF s # <<>> /\ s[Len(s)] = " " THEN TrimRight(SubSeq(s, 1, Len(s) - 1)) ELSE s

trim(s) == TrimRight(TrimLeft(s))

\* handleRevokeCertificate -> CertificateService.revokeCertificate ->
\* apiService.updateCertificate: PUT /api/certificates/:id.  The router has no
\* such route, the request falls through to notFound, request() throws.
revokeCertificate(u, oid, reason) ==
  /\ <<"PUT", "/:id">> \notin CertificateRoutes
  /\ resp' = IF trim(reason) = <<>>
             THEN Response("revoke", None, 0,
                           [alert |-> "Please provide a reason for revocation"])
             ELSE Response("revoke", None, 404, [alert |-> "Error revoking certificate"])
  /\ UNCHANGED <<now, donations, certificates, procs, matchVars>>

(* --------------------- donors and blood requests ----------------------- *)
\* nextEligibleDonationDate adds 56 days to lastDonationDate
EligibilityGapDays == 56

\* the schema's limits of unitsNeeded
MinUnits == 1
MaxUnits == 10

DonorIds == {"dn1", "dn2"}
RequestIds == {"r1", "r2"}
RequestStatus ==
  {"active", "partially_fulfilled", "fulfilled", "expired", "cancelled"}
Urgency == {"low", "medium", "high", "critical"}

\* dates are days; NoDate is a null date, Absent a key missing from a body
NoDate == -1
Absent == -2

\* a Donor document as createDonor stores it with the schema defaults; email
\* and phone are those of the User document that populate('user') joins in
NewDonor(user, bloodType, place) ==
  [absent |-> FALSE, user |-> user, bloodType |-> bloodType,
   location |-> place, isAvailable |-> TRUE, lastDonationDate |-> NoDate,
   donationCount |-> 0, medicalHistory |-> "noIllness",
   email |-> "mailA", phone |-> "phoneA"]

\* a BloodRequest document as createBloodRequest stores it
NewRequest(requester, bloodType, units, urgency, requiredBy, place) ==
  [absent |-> FALSE, requester |-> requester, bloodType |-> bloodType,
   unitsNeeded |-> units, unitsFulfilled |-> 0, urgency |-> urgency,
   requiredBy |-> requiredBy, location |-> place, status |-> "active",
   responses |-> <<>>]

\* a Donation document with its references to the donor and the request
ScheduledDonation(owner, details, donor, request, date) ==
  [f \in {"absent", "donorUser", "details", "status", "overallResult",
          "certificateGenerated", "certificateId", "donor", "bloodRequest",
          "donationDate"} |->
     CASE f = "donor" -> donor
       [] f = "bloodRequest" -> request
       [] f = "donationDate" -> date
       [] OTHER -> NewDonation(owner, details)[f]]

\* donorSchema.virtual('nextEligibleDonationDate') for a donor that has donated
nextEligibleDonationDate(donor) == donor.lastDonationDate + EligibilityGapDays

\* donorSchema.methods.isEligibleToDonate at time t
isEligibleToDonate(donor, t) ==
  IF ~donor.isAvailable THEN FALSE
  ELSE IF donor.lastDonationDate = NoDate THEN TRUE
  ELSE t >= nextEligibleDonationDate(donor)

\* bloodRequestSchema.methods.isExpired at time t
isExpired(request, t) == t > request.requiredBy

\* the status bloodRequestSchema.methods.updateStatus leaves at time t
updateStatus(request, t) ==
  IF isExpired(request, t) /\ request.status = "active" THEN "expired"
  ELSE IF request.unitsFulfilled >= request.unitsNeeded THEN "fulfilled"
  ELSE IF request.unitsFulfilled > 0 THEN "partially_fulfilled"
  ELSE request.status

DonorOfUser(u) == {id \in DOMAIN donors : ~donors[id].absent /\ donors[id].user = u}

certVars == <<certificates, procs>>

\* what the handlers of this section leave alone
sideVars == <<parked, calls, inventory>>

FinishComp(status) == [comp EXCEPT !.pc = "done", !.result = status]

\* PUT /api/donations/:id/complete (admin): findById with donor and
\* bloodRequest populated, then the two early returns
completeDonation_find(d) ==
  /\ comp.pc = "idle"
  /\ comp' = IF ~Exists(d)
             THEN [IdleComp EXCEPT !.pc = "done", !.donation = d, !.result = 404]
             ELSE IF donations[d].status = "completed"
             THEN [IdleComp EXCEPT !.pc = "done", !.donation = d, !.result = 400]
             ELSE [pc |-> "saveDonation", donation |-> d,
                   donor |-> donors[donations[d].donor],
                   request |-> requests[donations[d].bloodRequest],
                   result |-> 0]
  /\ resp' = NoResp
  /\ UNCHANGED <<now, donations, donors, requests, certVars, notified, sideVars>>

\* donation.status = 'completed'; await donation.save()
completeDonation_saveDonation ==
  /\ comp.pc = "saveDonation"
  /\ donations' = [donations EXCEPT ![comp.donation] =
                     [@ EXCEPT !.status = "completed"]]
  /\ comp' = [comp EXCEPT !.pc = "saveDonor"]
  /\ resp' = NoResp
  /\ UNCHANGED <<now, donors, requests, certVars, notified, sideVars>>

\* the donor as completeDonation changes its populated copy:
\* lastDonationDate, donationCount, then updateAvailability at time t
completedDonor(donor, date, t) ==
  LET dated == [donor EXCEPT !.lastDonationDate = date,
                             !.donationCount = @ + 1]
  IN [dated EXCEPT !.isAvailable = isEligibleToDonate(dated, t)]

\* save() writes the paths whose value differs from the copy that was read
SaveModified(stored, read, changed) ==
  [f \in DOMAIN stored |-> IF changed[f] # read[f] THEN changed[f] ELSE stored[f]]

\* await donor.updateAvailability()
completeDonation_saveDonor ==
  /\ comp.pc = "saveDonor"
  /\ LET id == donations[comp.donation].donor
         changed == completedDonor(comp.donor, donations[comp.donation].donationDate, now)
     IN donors' = [donors EXCEPT ![id] = SaveModified(@, comp.donor, changed)]
  /\ comp' = [comp EXCEPT !.pc = "saveRequest"]
  /\ resp' = NoResp
  /\ UNCHANGED <<now, donations, requests, certVars, notified, sideVars>>

\* the request as completeDonation changes its populated copy:
\* unitsFulfilled += 1, then updateStatus at time t
completedRequest(request, t) ==
  LET counted == [request EXCEPT !.unitsFulfilled = @ + 1]
  IN [counted EXCEPT !.status = updateStatus(counted, t)]

\* await bloodRequest.updateStatus(); res.status(200)
completeDonation_saveRequest ==
  /\ comp.pc = "saveRequest"
  /\ LET id == donations[comp.donation].bloodRequest
         changed == completedRequest(comp.request, now)
     IN requests' = [requests EXCEPT ![id] = SaveModified(@, comp.request, changed)]
  /\ comp' = FinishComp(200)
  /\ resp' = NoResp
  /\ UNCHANGED <<now, donations, donors, certVars, notified, sideVars>>

\* the slot takes the next completeDonation request
ResetComp ==
  /\ comp.pc = "done"
  /\ comp' = IdleComp
  /\ resp' = NoResp
  /\ UNCHANGED <<now, donations, donors, requests, certVars, notified, sideVars>>

\* PUT /api/donors/profile: Object.assign(donor, updates); save().  Of the
\* allowed keys the body carries isAvailable and lastDonationDate or not.
updateDonor(u, isAvailable, lastDonationDate) ==
  /\ IF DonorOfUser(u) = {}
     THEN /\ resp' = Response("updateDonor", None, 404, NoBody)
          /\ UNCHANGED donors
     ELSE \E id \in DonorOfUser(u) :
            /\ donors' = [donors EXCEPT ![id] =
                 [@ EXCEPT
                    !.isAvailable = IF isAvailable = "true" THEN TRUE
                                    ELSE IF isAvailable = "false" THEN FALSE ELSE @,
                    !.lastDonationDate = IF lastDonationDate = Absent
                                         THEN @ ELSE lastDonationDate]]
            /\ resp' = Response("updateDonor", None, 200, NoBody)
  /\ UNCHANGED <<now, donations, requests, comp, certVars, notified, sideVars>>

\* PUT /api/donors/availability
updateDonorAvailability(u, isAvailable) ==
  /\ IF DonorOfUser(u) = {}
     THEN /\ resp' = Response("updateDonorAvailability", None, 404, NoBody)
          /\ UNCHANGED donors
     ELSE \E id \in DonorOfUser(u) :
            IF isAvailable /\ ~isEligibleToDonate(donors[id], now)
            THEN /\ resp' = Response("updateDonorAvailability", None, 400, NoBody)
                 /\ UNCHANGED donors
            ELSE /\ donors' = [donors EXCEPT ![id] =
                                 [@ EXCEPT !.isAvailable = isAvailable]]
                 /\ resp' = Response("updateDonorAvailability", None, 200, NoBody)
  /\ UNCHANGED <<now, donations, requests, comp, certVars, notified, sideVars>>

\* the validators that run on the paths updateBloodRequest modified
RequestValid(request, t, units, requiredBy) ==
  /\ (units # Absent /\ units # request.unitsNeeded) =>
        (units >= MinUnits /\ units <= MaxUnits)
  /\ (requiredBy # Absent /\ requiredBy # request.requiredBy) => requiredBy > t

\* PUT /api/requests/:id.  Of the allowed keys the body carries unitsNeeded
\* and requiredBy or not.
updateBloodRequest(u, id, units, requiredBy) ==
  /\ IF id \notin DOMAIN requests \/ requests[id].absent
     THEN /\ resp' = Response("updateBloodRequest", None, 404, NoBody)
          /\ UNCHANGED requests
     ELSE IF requests[id].requester # u
     THEN /\ resp' = Response("updateBloodRequest", None, 403, NoBody)
          /\ UNCHANGED requests
     ELSE IF requests[id].status \in {"fulfilled", "expired"}
     THEN /\ resp' = Response("updateBloodRequest", None, 400, NoBody)
          /\ UNCHANGED requests
     ELSE IF ~RequestValid(requests[id], now, units, requiredBy)
     THEN /\ resp' = Response("updateBloodRequest", None, 500, NoBody)
          /\ UNCHANGED requests
     ELSE /\ requests' = [requests EXCEPT ![id] =
               [@ EXCEPT
                  !.unitsNeeded = IF units = Absent THEN @ ELSE units,
                  !.requiredBy = IF requiredBy = Absent THEN @ ELSE requiredBy]]
          /\ resp' = Response("updateBloodRequest", None, 200, NoBody)
  /\ UNCHANGED <<now, donations, donors, comp, certVars, notified, sideVars>>

\* days pass
Elapse(t) ==
  /\ t > now
  /\ now' = t
  /\ resp' = NoResp
  /\ UNCHANGED <<donations, donors, requests, comp, certVars, notified, sideVars>>

(* ------------------------------ matching ------------------------------- *)
BloodTypes == {"A+", "A-", "B+", "B-", "AB+", "AB-", "O+", "O-"}

\* faulty variant: the table of the types a recipient can receive from
getCompatibleBloodTypes_Reversed(donorBloodType) ==
  CASE donorBloodType = "AB+" -> {"O-", "O+", "A-", "A+", "B-", "B+", "AB-", "AB+"}
    [] donorBloodType = "AB-" -> {"O-", "A-", "B-", "AB-"}
    [] donorBloodType = "A+" -> {"O-", "O+", "A-", "A+"}
    [] donorBloodType = "A-" -> {"O-", "A-"}
    [] donorBloodType = "B+" -> {"O-", "O+", "B-", "B+"}
    [] donorBloodType = "B-" -> {"O-", "B-"}
    [] donorBloodType = "O+" -> {"O-", "O+"}
    [] donorBloodType = "O-" -> {"O-"}
    [] OTHER -> {}

\* getCompatibleBloodTypes: the request types a donor of the type can serve
getCompatibleBloodTypes(donorBloodType) ==
  CASE donorBloodType = "O-" -> {"O-", "O+", "A-", "A+", "B-", "B+", "AB-", "AB+"}
    [] donorBloodType = "O+" -> {"O+", "A+", "B+", "AB+"}
    [] donorBloodType = "A-" -> {"A-", "A+", "AB-", "AB+"}
    [] donorBloodType = "A+" -> {"A+", "AB+"}
    [] donorBloodType = "B-" -> {"B-", "B+", "AB-", "AB+"}
    [] donorBloodType = "B+" -> {"B+", "AB+"}
    [] donorBloodType = "AB-" -> {"AB-", "AB+"}
    [] donorBloodType = "AB+" -> {"AB+"}
    [] OTHER -> {}

\* locations are kilometres along a road; $near measures in metres
Distance(a, b) == (IF a >= b THEN a - b ELSE b - a) * 1000

\* the default of maxDistance in the handlers and in findNearby
DefaultMaxDistance == 50000

\* faulty variant: requiredBy today still counts as in the future
findNearbyRequestsQuery_NotStrict(reqs, point, maxDistance, bloodType, t) ==
  {id \in DOMAIN reqs :
     /\ ~reqs[id].absent
     /\ Distance(reqs[id].location, point) <= maxDistance
     /\ reqs[id].status \in {"active", "partially_fulfilled"}
     /\ reqs[id].requiredBy >= t
     /\ bloodType # None =>
          reqs[id].bloodType \in getCompatibleBloodTypes(bloodType)}

\* the filter of BloodRequest.findNearby at time t
findNearbyRequestsQuery(reqs, point, maxDistance, bloodType, t) ==
  {id \in DOMAIN reqs :
     /\ ~reqs[id].absent
     /\ Distance(reqs[id].location, point) <= maxDistance
     /\ reqs[id].status \in {"active", "partially_fulfilled"}
     /\ reqs[id].requiredBy > t
     /\ bloodType # None =>
          reqs[id].bloodType \in getCompatibleBloodTypes(bloodType)}

\* the urgency strings as the sequences of their letters' positions in the
\* alphabet: the sort compares the stored strings
Letters(urgency) ==
  CASE urgency = "critical" -> <<3, 18, 9, 20, 9, 3, 1, 12>>
    [] urgency = "high" -> <<8, 9, 7, 8>>
    [] urgency = "low" -> <<12, 15, 23>>
    [] urgency = "medium" -> <<13, 5, 4, 9, 21, 13>>

\* string comparison: a sorts before b
RECURSIVE StringLess(_, _)
StringLess(a, b) ==
  IF b = <<>> THEN FALSE
  ELSE IF a = <<>> THEN TRUE
  ELSE IF Head(a) # Head(b) THEN Head(a) < Head(b)
  ELSE StringLess(Tail(a), Tail(b))

\* .sort({ urgency: -1, requiredBy: 1 }): a has to come before b
SortsBefore(a, b) ==
  \/ StringLess(Letters(b.urgency), Letters(a.urgency))
  \/ a.urgency = b.urgency /\ a.requiredBy < b.requiredBy

\* the orders in which the sort can return the documents ids of a collection
Sorted(docs, ids) ==
  {seq \in [1..Cardinality(ids) -> ids] :
     /\ \A i, j \in 1..Cardinality(ids) : i # j => seq[i] # seq[j]
     /\ \A i, j \in 1..Cardinality(ids) :
          i < j => ~SortsBefore(docs[seq[j]], docs[seq[i]])}

\* coordinates outside the longitude and latitude ranges, as a place
OutOfRange == -3

\* GET /api/requests/nearby: a $near query with coordinates out of range is
\* rejected by the database and the handler's catch answers 500
getNearbyRequests(point, maxDistance, bloodType) ==
  /\ IF point = Absent
     THEN resp' = Response("getNearbyRequests", None, 400, NoBody)
     ELSE IF point = OutOfRange
     THEN resp' = Response("getNearbyRequests", None, 500, NoBody)
     ELSE \E found \in Sorted(requests,
                findNearbyRequestsQuery(requests, point, maxDistance, bloodType, now)) :
            resp' = Response("getNearbyRequests", None, 200,
                             [point |-> point, maxDistance |-> maxDistance,
                              bloodType |-> bloodType, requests |-> found])
  /\ UNCHANGED <<now, donations, donors, requests, comp, certVars, notified, sideVars>>

\* faulty variant: every donor who can serve the type is returned
findNearbyDonorsQuery_Compatible(dons, point, maxDistance, bloodType) ==
  {id \in DOMAIN dons :
     /\ ~dons[id].absent
     /\ Distance(dons[id].location, point) <= maxDistance
     /\ dons[id].isAvailable
     /\ bloodType # None => bloodType \in getCompatibleBloodTypes(dons[id].bloodType)}

\* the filter of Donor.findNearby
findNearbyDonorsQuery(dons, point, maxDistance, bloodType) ==
  {id \in DOMAIN dons :
     /\ ~dons[id].absent
     /\ Distance(dons[id].location, point) <= maxDistance
     /\ dons[id].isAvailable
     /\ bloodType # None => dons[id].bloodType = bloodType}

\* $near returns the nearest first
Nearest(docs, ids, point) ==
  {seq \in [1..Cardinality(ids) -> ids] :
     /\ \A i, j \in 1..Cardinality(ids) : i # j => seq[i] # seq[j]
     /\ \A i, j \in 1..Cardinality(ids) :
          i < j => Distance(docs[seq[i]].location, point)
                     <= Distance(docs[seq[j]].location, point)}

\* the documents of Donor.findNearby as res.json sends them: whole, with the
\* user's fullName, phone, email and avatar populated
NearbyDocuments(dons, found) == [i \in DOMAIN found |-> dons[found[i]]]

\* the fields getDonor deletes from the copy sent to a caller who is not the
\* donor's user
HiddenFields == {"medicalHistory", "email", "phone"}

HideSensitive(doc) == [f \in DOMAIN doc \ HiddenFields |-> doc[f]]

\* what getDonor sends of a donor document to the caller
getDonorBody(dons, caller, id) ==
  [donor |-> IF dons[id].user # caller THEN HideSensitive(dons[id]) ELSE dons[id]]

\* GET /api/donors/:id with optionalAuth: caller is None without a token
getDonor(caller, id) ==
  /\ resp' = IF donors[id].absent
             THEN Response("getDonor", caller, 404, NoBody)
             ELSE Response("getDonor", caller, 200, getDonorBody(donors, caller, id))
  /\ UNCHANGED <<now, donations, donors, requests, comp, certVars, notified, sideVars>>

\* GET /api/donors/nearby: a $near query with coordinates out of range is
\* rejected by the database and the handler's catch answers 500
getNearbyDonors(point, maxDistance, bloodType) ==
  /\ IF point = Absent
     THEN resp' = Response("getNearbyDonors", None, 400, NoBody)
     ELSE IF point = OutOfRange
     THEN resp' = Response("getNearbyDonors", None, 500, NoBody)
     ELSE \E found \in Nearest(donors,
                findNearbyDonorsQuery(donors, point, maxDistance, bloodType), point) :
            resp' = Response("getNearbyDonors", None, 200,
                             [point |-> point, maxDistance |-> maxDistance,
                              bloodType |-> bloodType, donors |-> found,
                              documents |-> NearbyDocuments(donors, found)])
  /\ UNCHANGED <<now, donations, donors, requests, comp, certVars, notified, sideVars>>

\* validate(bloodRequestValidation): the fields the model carries
bloodRequestValidation(bloodType, units, urgency, requiredBy, t) ==
  /\ bloodType \in BloodTypes
  /\ units >= MinUnits /\ units <= MaxUnits
  /\ urgency \in Urgency
  /\ requiredBy > t

\* donors.slice(0, 20)
MaxNotified == 20

\* the found donors nearer than donor d, and those as near or nearer
Nearer(dons, found, point, d) ==
  {e \in found : Distance(dons[e].location, point) < Distance(dons[d].location, point)}

NoFarther(dons, found, point, d) ==
  {e \in found : Distance(dons[e].location, point) <= Distance(dons[d].location, point)}

\* faulty variant: every found donor is notified
Recipients_NoCap(dons, found, point) == {found}

\* donors.slice(0, 20) of a list $near returns nearest first: the donors
\* that are among the first 20 in every order, and as many as are still
\* missing of those that tie at the cut
Recipients(dons, found, point) ==
  LET sure == {d \in found :
                 Cardinality(NoFarther(dons, found, point, d)) <= MaxNotified}
      tied == {d \in found \ sure :
                 Cardinality(Nearer(dons, found, point, d)) < MaxNotified}
  IN {sure \cup some : some \in {t \in SUBSET tied :
                                   Cardinality(t) = MaxNotified - Cardinality(sure)
                                   \/ (t = tied /\ Cardinality(found) <= MaxNotified)}}

\* the donors of a set as a list, nearest first
RECURSIVE InOrder(_, _, _)
InOrder(dons, ids, point) ==
  IF ids = {} THEN <<>>
  ELSE LET first == CHOOSE d \in ids : Nearer(dons, ids, point, d) = {}
       IN <<first>> \o InOrder(dons, ids \ {first}, point)

\* faulty variant: the confirmation email is awaited outside a try block
Notifications_ConfirmationThrows(requester, id, confirmed, lookedUp, deliveredTo) ==
  [mails |-> (IF confirmed
              THEN {[kind |-> "confirmation", to |-> requester, about |-> id]}
              ELSE {})
             \cup (IF confirmed /\ lookedUp
                   THEN {[kind |-> "donor", to |-> donors[d].user, about |-> id] :
                           d \in deliveredTo}
                   ELSE {}),
   thrown |-> ~confirmed]

\* the two try blocks after BloodRequest.create: the emails that arrive, and
\* whether an exception reaches the handler's outer catch
Notifications(requester, id, confirmed, lookedUp, deliveredTo) ==
  [mails |-> (IF confirmed
              THEN {[kind |-> "confirmation", to |-> requester, about |-> id]}
              ELSE {})
             \cup (IF lookedUp
                   THEN {[kind |-> "donor", to |-> donors[d].user, about |-> id] :
                           d \in deliveredTo}
                   ELSE {}),
   thrown |-> FALSE]

\* POST /api/requests: confirmed, lookedUp and deliveredTo are the outcomes
\* of the confirmation email, of Donor.findNearby and of the donor emails
createBloodRequest(u, id, bloodType, units, urgency, requiredBy, place, confirmed, lookedUp, deliveredTo) ==
  /\ requests[id].absent
  /\ IF ~bloodRequestValidation(bloodType, units, urgency, requiredBy, now)
     THEN /\ resp' = Response("createBloodRequest", id, 400, NoBody)
          /\ UNCHANGED <<requests, notified>>
     ELSE LET created == NewRequest(u, bloodType, units, urgency, requiredBy, place)
              found == findNearbyDonorsQuery(donors, place, DefaultMaxDistance,
                                             bloodType)
              outcome == Notifications(u, id, confirmed, lookedUp, deliveredTo)
          IN /\ \E to \in Recipients(donors, found, place) : deliveredTo \subseteq to
             /\ requests' = [requests EXCEPT ![id] = created]
             /\ notified' = notified \cup outcome.mails
             /\ resp' = IF outcome.thrown
                        THEN Response("createBloodRequest", id, 500, NoBody)
                        ELSE Response("createBloodRequest", id, 201,
                                      [bloodRequest |-> id])
  /\ UNCHANGED <<now, donations, donors, comp, certVars, sideVars>>

(* --------------------- createBloodRequest, step by step ---------------- *)
\* requestData = { requester, ...req.body }; BloodRequest.create
createBloodRequest_create(s, u, id, bloodType, units, urgency, requiredBy, place) ==
  /\ calls[s].pc = "idle"
  /\ requests[id].absent
  /\ IF ~bloodRequestValidation(bloodType, units, urgency, requiredBy, now)
     THEN /\ calls' = [calls EXCEPT ![s] =
                         [IdleCall EXCEPT !.op = "createBloodRequest", !.pc = "done",
                                          !.user = u, !.result = 400]]
          /\ UNCHANGED requests
     ELSE /\ requests' = [requests EXCEPT ![id] =
                            NewRequest(u, bloodType, units, urgency, requiredBy, place)]
          /\ calls' = [calls EXCEPT ![s] =
                         [op |-> "createBloodRequest", pc |-> "confirm", user |-> u,
                          result |-> 0, request |-> id, sent |-> <<>>, pending |-> {}]]
  /\ resp' = NoResp
  /\ UNCHANGED <<now, donations, donors, comp, certVars, notified, parked, inventory>>

\* await sendRequestConfirmation(req.user, bloodRequest): the send is issued
\* and the handler is suspended until it settles
createBloodRequest_confirm(s) ==
  /\ calls[s].op = "createBloodRequest" /\ calls[s].pc = "confirm"
  /\ calls' = [calls EXCEPT ![s].pc = "awaitConfirmation"]
  /\ resp' = NoResp
  /\ UNCHANGED <<now, donations, donors, requests, comp, certVars, notified,
                 parked, inventory>>

\* the confirmation email settles; a failure is caught and logged
createBloodRequest_confirmed(s, delivered) ==
  /\ calls[s].op = "createBloodRequest" /\ calls[s].pc = "awaitConfirmation"
  /\ notified' = notified \cup
        (IF delivered
         THEN {[kind |-> "confirmation", to |-> calls[s].user,
                about |-> calls[s].request]}
         ELSE {})
  /\ calls' = [calls EXCEPT ![s].pc = "lookup"]
  /\ resp' = NoResp
  /\ UNCHANGED <<now, donations, donors, requests, comp, certVars, parked, inventory>>

\* Donor.findNearby(coordinates, 50000, bloodType), slice(0, 20), one
\* sendDonorNotification per donor, await Promise.allSettled; a failing
\* lookup is caught and logged
createBloodRequest_lookup(s, lookedUp) ==
  /\ calls[s].op = "createBloodRequest" /\ calls[s].pc = "lookup"
  /\ LET request == requests[calls[s].request]
         found == findNearbyDonorsQuery(donors, request.location,
                                        DefaultMaxDistance, request.bloodType)
     IN IF lookedUp /\ ~request.absent
        THEN \E to \in Recipients(donors, found, request.location) :
               calls' = [calls EXCEPT ![s].pc = "awaitAll",
                                      ![s].sent = InOrder(donors, to, request.location),
                                      ![s].pending = to]
        ELSE calls' = [calls EXCEPT ![s].pc = "respond"]
  /\ resp' = NoResp
  /\ UNCHANGED <<now, donations, donors, requests, comp, certVars, notified,
                 parked, inventory>>

\* some of the pending donor emails settle; a failure is caught and logged
createBloodRequest_settle(s, settled, deliveredTo) ==
  /\ calls[s].op = "createBloodRequest" /\ calls[s].pc = "awaitAll"
  /\ settled # {} /\ settled \subseteq calls[s].pending
  /\ deliveredTo \subseteq settled
  /\ notified' = notified \cup
        {[kind |-> "donor", to |-> donors[d].user, about |-> calls[s].request] :
           d \in deliveredTo}
  /\ calls' = [calls EXCEPT ![s].pending = @ \ settled]
  /\ resp' = NoResp
  /\ UNCHANGED <<now, donations, donors, requests, comp, certVars, parked, inventory>>

\* res.status(201), once Promise.allSettled has resolved
createBloodRequest_respond(s) ==
  /\ calls[s].op = "createBloodRequest"
  /\ \/ calls[s].pc = "respond"
     \/ calls[s].pc = "awaitAll" /\ calls[s].pending = {}
  /\ calls' = [calls EXCEPT ![s].pc = "done", ![s].result = 201]
  /\ resp' = Response("createBloodRequest", calls[s].request, 201,
                      [bloodRequest |-> calls[s].request])
  /\ UNCHANGED <<now, donations, donors, requests, comp, certVars, notified,
                 parked, inventory>>

\* the slot takes the next request
ResetCall(s) ==
  /\ calls[s].pc = "done"
  /\ calls' = [calls EXCEPT ![s] = IdleCall]
  /\ resp' = NoResp
  /\ UNCHANGED <<now, donations, donors, requests, comp, certVars, notified,
                 parked, inventory>>

(* ---------------------------- blood inventory -------------------------- *)
InventoryIds == {"i1"}

InventoryStatus == {"Available", "Low Stock", "Out of Stock", "Expired", "Reserved"}

\* the schema default of minimumThreshold
DefaultThreshold == 5

\* bloodInventorySchema.pre('save'): the status of a document at time t
preSaveStatus(doc, t) ==
  IF doc.expiryDate <= t THEN "Expired"
  ELSE IF doc.unitsAvailable = 0 THEN "Out of Stock"
  ELSE IF doc.unitsAvailable <= doc.minimumThreshold THEN "Low Stock"
  ELSE IF doc.unitsReserved > 0 THEN "Reserved"
  ELSE "Available"

\* the validators of the paths a body carries; Absent and None stand for a
\* path the body does not carry
InventoryValid(unitsAvailable, unitsReserved, expiryDate, status, t) ==
  /\ unitsAvailable = Absent \/ unitsAvailable >= 0
  /\ unitsReserved = Absent \/ unitsReserved >= 0
  /\ expiryDate = Absent \/ expiryDate > t
  /\ status = None \/ status \in InventoryStatus

\* POST /api/inventory (admin): BloodInventory.create validates and runs the
\* pre-save hook, which overwrites whatever status the body carried
createBloodInventory(id, unitsAvailable, unitsReserved, expiryDate, status) ==
  /\ inventory[id].absent
  /\ IF /\ expiryDate # Absent
        /\ InventoryValid(unitsAvailable, unitsReserved, expiryDate, status, now)
     THEN LET doc == [absent |-> FALSE,
                      unitsAvailable |-> IF unitsAvailable = Absent THEN 0
                                         ELSE unitsAvailable,
                      unitsReserved |-> IF unitsReserved = Absent THEN 0
                                        ELSE unitsReserved,
                      minimumThreshold |-> DefaultThreshold,
                      expiryDate |-> expiryDate,
                      status |-> status]
          IN /\ inventory' = [inventory EXCEPT ![id] =
                                [doc EXCEPT !.status = preSaveStatus(doc, now)]]
             /\ resp' = Response("createBloodInventory", id, 201, NoBody)
     ELSE /\ resp' = Response("createBloodInventory", id, 400, NoBody)
          /\ UNCHANGED inventory
  /\ UNCHANGED <<now, donations, donors, requests, comp, certVars, notified,
                 parked, calls>>

\* PUT /api/inventory/:id (admin): findByIdAndUpdate(id, body, { new: true,
\* runValidators: true }) sets the paths of the body; no save hook runs
updateBloodInventory(id, unitsAvailable, unitsReserved, expiryDate, status) ==
  /\ IF ~InventoryValid(unitsAvailable, unitsReserved, expiryDate, status, now)
     THEN /\ resp' = Response("updateBloodInventory", id, 400, NoBody)
          /\ UNCHANGED inventory
     ELSE IF inventory[id].absent
     THEN /\ resp' = Response("updateBloodInventory", id, 404, NoBody)
          /\ UNCHANGED inventory
     ELSE /\ inventory' = [inventory EXCEPT ![id] =
               [@ EXCEPT
                  !.unitsAvailable = IF unitsAvailable = Absent THEN @
                                     ELSE unitsAvailable,
                  !.unitsReserved = IF unitsReserved = Absent THEN @
                                    ELSE unitsReserved,
                  !.expiryDate = IF expiryDate = Absent THEN @ ELSE expiryDate,
                  !.status = IF status = None THEN @ ELSE status]]
          /\ resp' = Response("updateBloodInventory", id, 200, NoBody)
  /\ UNCHANGED <<now, donations, donors, requests, comp, certVars, notified,
                 parked, calls>>

(* ------------------------------ registerDonor -------------------------- *)
\* faulty variant: the unique index on user is missing
DuplicateUser_NoIndex(u) == FALSE

\* donorSchema.index({ user: 1 }, { unique: true }): an insert for a user
\* who has a Donor document is rejected with E11000
DuplicateUser(u) == DonorOfUser(u) # {}

\* POST /api/donors/register: Donor.findOne({ user: req.user.id })
registerDonor_find(s, u) ==
  /\ calls[s].pc = "idle"
  /\ calls' = [calls EXCEPT ![s] =
        IF DonorOfUser(u) # {}
        THEN [IdleCall EXCEPT !.op = "registerDonor", !.pc = "done", !.user = u,
                              !.result = 400]
        ELSE [IdleCall EXCEPT !.op = "registerDonor", !.pc = "create", !.user = u]]
  /\ resp' = NoResp
  /\ UNCHANGED <<now, donations, donors, requests, comp, certVars, notified,
                 parked, inventory>>

\* Donor.create({ user, ...req.body }): a ValidationError is answered 400,
\* any other error 500; the confirmation email's failure is caught
registerDonor_create(s, id, bloodType, place) ==
  /\ calls[s].op = "registerDonor" /\ calls[s].pc = "create"
  /\ donors[id].absent
  /\ IF bloodType \notin BloodTypes
     THEN /\ calls' = [calls EXCEPT ![s].pc = "done", ![s].result = 400]
          /\ UNCHANGED donors
     ELSE IF DuplicateUser(calls[s].user)
     THEN /\ calls' = [calls EXCEPT ![s].pc = "done", ![s].result = 500]
          /\ UNCHANGED donors
     ELSE /\ donors' = [donors EXCEPT ![id] =
                          NewDonor(calls[s].user, bloodType, place)]
          /\ calls' = [calls EXCEPT ![s].pc = "done", ![s].result = 201]
  /\ resp' = NoResp
  /\ UNCHANGED <<now, donations, requests, comp, certVars, notified, parked,
                 inventory>>

(* ---------------------- concurrent completeDonation -------------------- *)
\* the running completeDonation request is suspended at an await and the
\* other one runs on
completeDonation_yield ==
  /\ comp # parked
  /\ comp' = parked
  /\ parked' = comp
  /\ resp' = NoResp
  /\ UNCHANGED <<now, donations, donors, requests, certVars, notified, calls,
                 inventory>>

(* ----------------------------- respondToRequest ------------------------ *)
\* the donors who have responded to a request
Responders(request) == {request.responses[i] : i \in DOMAIN request.responses}

\* POST /api/requests/:id/respond: findById, the status check, the donor
\* profile and the check of the responses that were read
respondToRequest_find(s, u, id) ==
  /\ calls[s].pc = "idle"
  /\ LET answer(status) ==
           [IdleCall EXCEPT !.op = "respondToRequest", !.pc = "done", !.user = u,
                            !.result = status]
     IN calls' = [calls EXCEPT ![s] =
          IF requests[id].absent THEN answer(404)
          ELSE IF requests[id].status \notin {"active", "partially_fulfilled"}
          THEN answer(400)
          ELSE IF DonorOfUser(u) = {} THEN answer(400)
          ELSE IF DonorOfUser(u) \subseteq Responders(requests[id]) THEN answer(400)
          ELSE [op |-> "respondToRequest", pc |-> "save", user |-> u, result |-> 0,
                request |-> id, donor |-> CHOOSE d \in DonorOfUser(u) : TRUE]]
  /\ resp' = NoResp
  /\ UNCHANGED <<now, donations, donors, requests, comp, certVars, notified,
                 parked, inventory>>

\* bloodRequest.responses.push(...); await bloodRequest.save(): the new
\* element is appended to the stored array with $push
respondToRequest_save(s) ==
  /\ calls[s].op = "respondToRequest" /\ calls[s].pc = "save"
  /\ requests' = [requests EXCEPT ![calls[s].request].responses =
                    Append(@, calls[s].donor)]
  /\ calls' = [calls EXCEPT ![s].pc = "done", ![s].result = 200]
  /\ resp' = NoResp
  /\ UNCHANGED <<now, donations, donors, comp, certVars, notified, parked,
                 inventory>>

(* ---------------------------- specification ---------------------------- *)
CertObjectIds == 1..2

CompletedSafeDonation(owner, details) ==
  [NewDonation(owner, details) EXCEPT
     !.status = "completed", !.overallResult = "safe"]

\* one donation, as createDonation leaves it
Init ==
  /\ now = 0
  /\ donations = [d \in DonationIds |->
                    IF d = "d1" THEN NewDonation("u1", "detailsA") ELSE NoDoc]
  /\ certificates = {}
  /\ procs = [p \in Procs |-> IdleProc]
  /\ resp = NoResp
  /\ NoMatching

generateCertificate(p) ==
  \/ \E u \in Users, d \in DonationIds : generateCertificate_find(p, u, d)
  \/ generateCertificate_lookup(p)
  \/ \E cid \in CertIdSpace, code \in CodeSpace :
        generateCertificate_create(p, cid, code)
  \/ generateCertificate_qr(p)
  \/ generateCertificate_mark(p)
  \/ \E delivered \in BOOLEAN : generateCertificate_email(p, delivered)

\* issuance requests racing with the admin's changes to the donation
Next ==
  \/ \E p \in Procs : generateCertificate(p)
  \/ \E p \in Procs : Reset(p)
  \/ \E d \in DonationIds, st \in StatusInputs \cup {None},
        ov \in ResultInputs \cup {None} : updateDonation(d, st, ov)
  \/ \E d \in DonationIds, ov \in ResultInputs : addTestResults(d, ov)

Spec == Init /\ [][Next]_vars

\* a completed and safe donation and the operations on its certificate
InitOps ==
  /\ now = 0
  /\ donations = [d \in DonationIds |->
                    IF d = "d1" THEN CompletedSafeDonation("u1", "detailsA")
                    ELSE NoDoc]
  /\ certificates = {}
  /\ procs = [p \in Procs |-> IdleProc]
  /\ resp = NoResp
  /\ NoMatching

NextOps ==
  \/ \E p \in Procs : generateCertificate(p)
  \/ \E p \in Procs : Reset(p)
  \/ \E u \in Users, oid \in CertObjectIds : downloadCertificate(u, oid)
  \/ \E u \in Users, oid \in CertObjectIds : regenerateCertificate(u, oid)
  \/ \E u \in Users, oid \in CertObjectIds, in \in ShareInputs :
        shareCertificate(u, oid, in[1], in[2])

SpecOps == InitOps /\ [][NextOps]_vars

\* a database in which the completed and safe donation d1 has no certificate
\* yet, or already has one in any status the schema allows
SeedCertificate(st) ==
  LET c == [NewCertificate(1, "u1", "d1", "detailsA", "CERT-2", "K2") EXCEPT
              !.status = st, !.generatedAt = 0]
  IN [c EXCEPT !.qrCode = QRData(c, None)]

InitSeeded ==
  /\ now = 0
  /\ \/ /\ certificates = {}
        /\ donations = [d \in DonationIds |->
                          IF d = "d1" THEN CompletedSafeDonation("u1", "detailsA")
                          ELSE NoDoc]
     \/ \E st \in CertificateStatus :
          /\ certificates = {SeedCertificate(st)}
          /\ donations = [d \in DonationIds |->
                            IF d = "d1"
                            THEN [CompletedSafeDonation("u1", "detailsA") EXCEPT
                                    !.certificateGenerated = TRUE,
                                    !.certificateId = "CERT-2"]
                            ELSE NoDoc]
  /\ procs = [p \in Procs |-> IdleProc]
  /\ resp = NoResp
  /\ NoMatching

\* the donor of d1 asks once for its certificate
issueByDonor ==
  \/ generateCertificate_find(1, "u1", "d1")
  \/ generateCertificate_lookup(1)
  \/ \E code \in CodeSpace : generateCertificate_create(1, "CERT-1", code)
  \/ generateCertificate_qr(1)
  \/ generateCertificate_mark(1)
  \/ \E delivered \in BOOLEAN : generateCertificate_email(1, delivered)

\* the certificate API, one request at a time
NextCert ==
  \/ issueByDonor
  \/ \E code \in CodeInputs : verifyCertificate(code)
  \/ \E u \in Users, oid \in CertObjectIds : downloadCertificate(u, oid)
  \/ \E u \in Users, oid \in CertObjectIds : regenerateCertificate(u, oid)
  \/ \E u \in Users, oid \in CertObjectIds, in \in ShareInputs :
        shareCertificate(u, oid, in[1], in[2])
  \/ \E u \in Users, oid \in CertObjectIds, delivered \in BOOLEAN :
        sendCertificateEmailEndpoint(u, oid, delivered)
  \/ Tick

SpecCert == InitSeeded /\ [][NextCert]_vars

\* verification and the admin page's revocation, against issue and regenerate
NextVerify ==
  \/ issueByDonor
  \/ \E code \in CodeInputs : verifyCertificate(code)
  \/ \E u \in Users, oid \in CertObjectIds : regenerateCertificate(u, oid)
  \/ \E u \in Users, oid \in CertObjectIds, reason \in Reasons :
        revokeCertificate(u, oid, reason)
  \/ Tick

SpecVerify == InitSeeded /\ [][NextVerify]_vars

\* two completed and safe donations of two donors, no certificate yet
InitIds ==
  /\ now = 0
  /\ donations = [d \in DonationIds |->
                    CompletedSafeDonation(IF d = "d1" THEN "u1" ELSE "u2",
                                          IF d = "d1" THEN "detailsA" ELSE "detailsB")]
  /\ certificates = {}
  /\ procs = [p \in Procs |-> IdleProc]
  /\ resp = NoResp
  /\ NoMatching

\* each donor asks for the certificate of their donation; the pre-save hook
\* may generate any identifier and code, also ones already in use
NextIds ==
  \/ \E p \in Procs, d \in DonationIds :
        generateCertificate_find(p, donations[d].donorUser, d)
  \/ \E p \in Procs : generateCertificate_lookup(p)
  \/ \E p \in Procs, cid \in CertIdSpace, code \in CodeSpace :
        generateCertificate_create(p, cid, code)
  \/ \E p \in Procs : generateCertificate_qr(p)
  \/ \E p \in Procs : generateCertificate_mark(p)
  \/ \E p \in Procs, delivered \in BOOLEAN : generateCertificate_email(p, delivered)
  \/ \E p \in Procs : Reset(p)

SpecIds == InitIds /\ [][NextIds]_vars

\* the scenario's calendar: today, tomorrow, in two months
Today == EligibilityGapDays + 4
LaterDays == {61, 120}

\* donation dates 60, 56, 55 and 0 days before Today
DonationDates == {0, 4, 5, 60}

\* donor dn1 of user u1, the request r1 of user u2, and the donation d1
\* scheduled for them on some date; nothing has been completed yet
InitDonor ==
  /\ now = Today
  /\ donors = [id \in DonorIds |->
                 IF id = "dn1" THEN NewDonor("u1", "O+", 0) ELSE NoDoc]
  /\ requests = [id \in RequestIds |->
                   IF id = "r1" THEN NewRequest("u2", "A+", 2, "medium", 100, 0)
                   ELSE NoDoc]
  /\ \E date \in DonationDates :
        donations = [d \in DonationIds |->
                       IF d = "d1"
                       THEN ScheduledDonation("u1", "detailsA", "dn1", "r1", date)
                       ELSE NoDoc]
  /\ comp = IdleComp
  /\ notified = {}
  /\ NoSide
  /\ certificates = {}
  /\ procs = [p \in Procs |-> IdleProc]
  /\ resp = NoResp

completeDonation ==
  \/ \E d \in DonationIds : completeDonation_find(d)
  \/ completeDonation_saveDonation
  \/ completeDonation_saveDonor
  \/ completeDonation_saveRequest
  \/ ResetComp

\* the admin completes donations while the donor edits their profile
NextDonor ==
  \/ completeDonation
  \/ \E u \in {"u1", "u2"}, isAvailable \in {"true", "false", None},
        lastDonationDate \in {Absent, 5} :
        updateDonor(u, isAvailable, lastDonationDate)
  \/ \E u \in {"u1", "u2"}, isAvailable \in BOOLEAN :
        updateDonorAvailability(u, isAvailable)
  \/ \E t \in LaterDays : Elapse(t)

SpecDonor == InitDonor /\ [][NextDonor]_vars

\* request r1 of user u2 for two units, with two donations of donor dn1
\* scheduled for it
InitRequest ==
  /\ now = Today
  /\ donors = [id \in DonorIds |->
                 IF id = "dn1" THEN NewDonor("u1", "O+", 0) ELSE NoDoc]
  /\ \E requiredBy \in {61, 100} :
        requests = [id \in RequestIds |->
                      IF id = "r1"
                      THEN NewRequest("u2", "A+", 2, "medium", requiredBy, 0)
                      ELSE NoDoc]
  /\ donations = [d \in DonationIds |->
                    ScheduledDonation("u1", "detailsA", "dn1", "r1",
                                      IF d = "d1" THEN 5 ELSE Today)]
  /\ comp = IdleComp
  /\ notified = {}
  /\ NoSide
  /\ certificates = {}
  /\ procs = [p \in Procs |-> IdleProc]
  /\ resp = NoResp

\* the admin completes donations while the requester edits the request
NextRequest ==
  \/ completeDonation
  \/ \E u \in {"u1", "u2"}, id \in RequestIds, units \in {Absent, 1, 3, 11},
        requiredBy \in {Absent, 50, 130} :
        updateBloodRequest(u, id, units, requiredBy)
  \/ \E t \in LaterDays : Elapse(t)

SpecRequest == InitRequest /\ [][NextRequest]_vars

(* ======================================================================= *)
(*                                 claims                                  *)
(* ======================================================================= *)
Done(p) == procs[p].pc = "done"

CertificatesOf(d) == {c \in certificates : c.donation = d}

\* C1: when two generateCertificate requests for the same donation both pass
\* the checks and both find no existing certificate (they run concurrently),
\* exactly one ends with 201 and an issued certificate, the other ends with
\* the 400 "already exists", never with a 500, and one certificate exists.
C1_ExactlyOneIssuedOnePrecondition ==
  \A p, q \in Procs :
    ( /\ p # q /\ Done(p) /\ Done(q)
      /\ procs[p].donation = procs[q].donation
      /\ procs[p].found = "null" /\ procs[q].found = "null" )
    => /\ {procs[p].result, procs[q].result} = {201, 400}
       /\ Cardinality(CertificatesOf(procs[p].donation)) = 1

\* C2: in every reachable state there is at most one Certificate per Donation.
C2_OneCertificatePerDonation ==
  \A c1, c2 \in certificates : c1.donation = c2.donation => c1 = c2

\* two requests raced for the same donation, one was rejected by the index,
\* and the certificate has since been regenerated, shared and downloaded
C2_Witness ==
  /\ \E p, q \in Procs :
        /\ Done(p) /\ Done(q) /\ procs[p].result = 201 /\ procs[q].result = 500
        /\ procs[p].donation = procs[q].donation
  /\ \E c \in certificates :
        c.downloadCount > 0 /\ c.version > 10 /\ c.shareableLink # None

\* the step in which slot p receives a request and reads the donation
FindStep(p) == procs[p].pc = "idle" /\ procs'[p].pc # "idle"

\* the step in which slot p inserts a certificate
CreateStep(p) == procs[p].pc = "create" /\ procs'[p].pc = "qr"

Rejected(p, status) ==
  /\ procs'[p].pc = "done" /\ procs'[p].result = status
  /\ UNCHANGED <<certificates, donations>>

C4_NotFoundThenAuthorization ==
  [][ \A p \in Procs :
        FindStep(p) =>
          /\ ~Exists(procs'[p].donation) => Rejected(p, 404)
          /\ ( /\ Exists(procs'[p].donation)
               /\ donations[procs'[p].donation].donorUser # procs'[p].user )
             => Rejected(p, 403) ]_vars

\* an admin was refused a certificate of a completed and safe donation that
\* already has one, and a request for a missing donation got the 404
C4_Witness ==
  \E p, q \in Procs :
    /\ Done(p) /\ procs[p].result = 403 /\ procs[p].user = "admin"
    /\ procs[p].seen = [status |-> "completed", overallResult |-> "safe"]
    /\ CertificatesOf(procs[p].donation) # {}
    /\ Done(q) /\ procs[q].result = 404 /\ ~Exists(procs[q].donation)

C6_RevokedIndistinguishable ==
  [][ \A code \in CodeInputs :
        verifyCertificate(code) =>
          \A c \in certificates :
            (c.verificationCode = code /\ c.status = "revoked") =>
              /\ verifyResponses(certificates, code)
                    = verifyResponses(certificates \ {c}, code)
              /\ resp'.body \in verifyResponses(certificates \ {c}, code)
              /\ resp'.status = 404 ]_vars

\* the code of a revoked certificate has just been refused
C6_Witness ==
  /\ resp.op = "verify" /\ resp.status = 404
  /\ resp.body = NotFoundOrInvalid
  /\ \E c \in certificates :
        c.verificationCode = resp.arg /\ c.status = "revoked"

(* ------------------------------ revoke --------------------------------- *)
\* C7: revoke succeeds only for the certificate's donor or an admin and with
\* a non-empty reason; on success the certificate's status becomes 'revoked'
\* (with a timestamp); on failure the certificate is unchanged.
C7_RevokeByOwnerOrAdminWithReason ==
  [][ \A u \in Users, oid \in CertObjectIds, reason \in Reasons :
        revokeCertificate(u, oid, reason) =>
          \A c \in FindById(oid) :
            IF OwnerOrAdmin(c, u) /\ trim(reason) # <<>>
            THEN /\ resp'.status = 200
                 /\ \E c2 \in certificates' :
                       c2._id = oid /\ c2.status = "revoked"
            ELSE /\ resp'.status # 200
                 /\ UNCHANGED certificates ]_vars

(* --------------------------- status, frame ----------------------------- *)
AllowedTransition(from, to) ==
  \/ from = to
  \/ <<from, to>> \in {<<"draft", "issued">>, <<"issued", "revoked">>,
                       <<"issued", "expired">>}

\* C8: a certificate's status only changes along draft -> issued,
\* issued -> revoked, issued -> expired; a revoked certificate stays revoked
\* and its donation never gets another certificate.
C8_RevokedIsTerminal ==
  [][ /\ \A c \in certificates :
           \E c2 \in certificates' :
              c2._id = c._id /\ AllowedTransition(c.status, c2.status)
      /\ \A c \in certificates :
           c.status = "revoked" =>
             \A c2 \in certificates' :
                c2.donation = c.donation =>
                  c2._id = c._id /\ c2.status = "revoked" ]_vars

\* a revoked certificate has been regenerated, shared and downloaded, and a
\* new issue request for its donation has been refused
C8_Witness ==
  \E c \in certificates :
    /\ c.status = "revoked" /\ c.version > 10
    /\ c.downloadCount > 0 /\ c.shareableLink # None
    /\ Done(1) /\ procs[1].donation = c.donation
    /\ procs[1].result = 400 /\ procs[1].found = "existing"

\* the verify response, the issued date of the view left out
VerifyOutcome(certs, code) ==
  {IF r.status = 200
   THEN [r EXCEPT !.verification = [@ EXCEPT !.issuedDate = 0]]
   ELSE r : r \in verifyResponses(certs, code)}

\* C9: a successful regenerateCertificate sets generatedAt to the current
\* time, increases the version and rebuilds the QR payload; it leaves
\* verificationCode, certificateId, status, donor, donation and
\* donationDetails unchanged, so every code verifies after it as before
\* (the view's issued date, which is generatedAt, aside).
C9_RegenerateKeepsIdentity ==
  [][ \A u \in Users, oid \in CertObjectIds :
        ( regenerateCertificate(u, oid) /\ resp'.status = 200 ) =>
          /\ \A c \in FindById(oid) :
               \E c2 \in certificates' :
                  /\ c2._id = c._id
                  /\ c2.generatedAt = now /\ c2.version > c.version
                  /\ c2.verificationCode = c.verificationCode
                  /\ c2.certificateId = c.certificateId
                  /\ c2.status = c.status
                  /\ c2.donor = c.donor /\ c2.donation = c.donation
                  /\ c2.donationDetails = c.donationDetails
          /\ Cardinality(certificates') = Cardinality(certificates)
          /\ \A code \in CodeInputs :
               VerifyOutcome(certificates', code) = VerifyOutcome(certificates, code) ]_vars

\* an issued certificate has just been regenerated at a later time
C9_Witness ==
  /\ resp.op = "regenerate" /\ resp.status = 200
  /\ now > 0
  /\ \E c \in certificates :
        /\ c.status = "issued" /\ c.version > 10 /\ c.generatedAt = now
        /\ verifyCertificateQuery(certificates, c.verificationCode) = {c}

Unchanged_Identity(c, c2) ==
  /\ c2._id = c._id
  /\ c2.certificateId = c.certificateId
  /\ c2.verificationCode = c.verificationCode
  /\ c2.donor = c.donor /\ c2.donation = c.donation
  /\ c2.donationDetails = c.donationDetails

C11_UniqueIdentifiers ==
  /\ \A c \in certificates :
        c.certificateId \in CertIdSpace /\ c.verificationCode \in CodeSpace
  /\ \A c1, c2 \in certificates :
        ( \/ c1.certificateId = c2.certificateId
          \/ c1.verificationCode = c2.verificationCode ) => c1 = c2

\* the generator repeated a value for the second donation and the insert
\* was rejected: one certificate stored, the other request answered 500
C11_Witness ==
  \E p, q \in Procs :
    /\ Done(p) /\ procs[p].result = 201
    /\ Done(q) /\ procs[q].result = 500 /\ procs[q].found = "null"
    /\ procs[q].donation # procs[p].donation
    /\ CertificatesOf(procs[q].donation) = {}
    /\ Cardinality(certificates) = 1

(* ------------------------ donor availability --------------------------- *)
\* the step in which completeDonation answers 200
CompletionSucceeds == comp.pc = "saveRequest" /\ comp'.pc = "done" /\ comp'.result = 200

\* C12: immediately after completeDonation succeeds the donation's donor has
\* isAvailable = false, whatever the donor's state and the donation's date.
C12_UnavailableAfterCompletion ==
  [][ CompletionSucceeds =>
        ~donors'[donations[comp.donation].donor].isAvailable ]_vars

\* C13: no operation changes a donor's isAvailable from false to true while
\* fewer than 56 days have elapsed since the donor's lastDonationDate.
C13_NoEarlyAvailability ==
  [][ \A id \in DonorIds :
        ( /\ ~donors[id].absent /\ ~donors'[id].absent
          /\ ~donors[id].isAvailable /\ donors'[id].isAvailable )
        => \/ donors'[id].lastDonationDate = NoDate
           \/ now' - donors'[id].lastDonationDate >= EligibilityGapDays ]_vars

(* --------------------------- blood requests ---------------------------- *)
\* the status changes C14 rules out
BackwardTransition(from, to) ==
  \/ from \in {"fulfilled", "expired", "cancelled"}
       /\ to \in {"active", "partially_fulfilled"}
  \/ from \in {"expired", "cancelled"} /\ to = "fulfilled"
  \/ from = "partially_fulfilled" /\ to = "active"

C15_RequesterKeepsUnitsWithinNeed ==
  [][ \A id \in RequestIds :
        ( /\ ~requests[id].absent /\ ~requests'[id].absent
          /\ requests[id].unitsFulfilled <= requests[id].unitsNeeded
          /\ requests'[id].unitsFulfilled > requests'[id].unitsNeeded )
        => comp.pc = "saveRequest" /\ comp'.pc = "done" ]_vars

(* --------------------------- nearby requests --------------------------- *)
\* the days requests in the collection are required by: yesterday, today,
\* tomorrow and later
RequiredByDays == {Today - 1, Today, Today + 1, Today + 40}

\* where requests and donors are, in kilometres from the searcher's origin
Places == {0, 51}

\* the radii searched with, in metres
Radii == {DefaultMaxDistance, DefaultMaxDistance + 10000}

\* a stored request of two units in the given status
StoredRequest(bloodType, urgency, requiredBy, place, status) ==
  [NewRequest("u2", bloodType, 2, urgency, requiredBy, place) EXCEPT
     !.status = status,
     !.unitsFulfilled = CASE status = "partially_fulfilled" -> 1
                          [] status = "fulfilled" -> 2
                          [] OTHER -> 0]

\* two stored requests: r1 of any type, urgency, status, date and place, r2
\* an active AB+ request at the origin; a request is expired only after its
\* date
InitNearbyRequests ==
  /\ now = Today
  /\ donors = [id \in DonorIds |-> NoDoc]
  /\ \E bloodType \in BloodTypes, status \in RequestStatus, place \in Places,
        urgency1 \in Urgency, urgency2 \in {"high", "medium"},
        requiredBy1 \in RequiredByDays, requiredBy2 \in {Today + 1, Today + 40} :
        /\ status = "expired" => requiredBy1 < Today
        /\ requests = [id \in RequestIds |->
                         IF id = "r1"
                         THEN StoredRequest(bloodType, urgency1, requiredBy1, place, status)
                         ELSE StoredRequest("AB+", urgency2, requiredBy2, 0, "active")]
  /\ donations = [d \in DonationIds |-> NoDoc]
  /\ comp = IdleComp
  /\ notified = {}
  /\ NoSide
  /\ certificates = {}
  /\ procs = [p \in Procs |-> IdleProc]
  /\ resp = NoResp

\* donors search for requests from the origin
NextNearbyRequests ==
  \E point \in {Absent, 0}, maxDistance \in Radii, bloodType \in BloodTypes \cup {None} :
     getNearbyRequests(point, maxDistance, bloodType)

SpecNearbyRequests == InitNearbyRequests /\ [][NextNearbyRequests]_vars

\* a getNearbyRequests step answers with a list
Searched == resp'.op = "getNearbyRequests" /\ resp'.status = 200

Returned(body) == {body.requests[i] : i \in DOMAIN body.requests}

\* the antigens of a blood type
Antigens(bloodType) ==
  (IF bloodType \in {"A+", "A-", "AB+", "AB-"} THEN {"A"} ELSE {})
  \cup (IF bloodType \in {"B+", "B-", "AB+", "AB-"} THEN {"B"} ELSE {})
  \cup (IF bloodType \in {"A+", "B+", "AB+", "O+"} THEN {"Rh"} ELSE {})

\* the row of the donor-to-request compatibility table: the request types
\* that carry every antigen of the donor
Row(donorBloodType) ==
  {r \in BloodTypes : Antigens(donorBloodType) \subseteq Antigens(r)}

Eligible(request, t) ==
  /\ ~request.absent
  /\ request.status \in {"active", "partially_fulfilled"}
  /\ request.requiredBy > t

\* C16: for every donor blood type T, findNearbyRequests(point, radius, T)
\* returns exactly the eligible requests within the radius whose bloodType is
\* in the compatibility row for T.
C16_CompatibleRequestsExactly ==
  [][ (Searched /\ resp'.body.bloodType \in BloodTypes) =>
        Returned(resp'.body) =
          {id \in RequestIds :
             /\ Eligible(requests[id], now)
             /\ Distance(requests[id].location, resp'.body.point)
                  <= resp'.body.maxDistance
             /\ requests[id].bloodType \in Row(resp'.body.bloodType)} ]_vars

\* an A- donor is shown the AB+ request and not the eligible B+ one beside it
C16_Witness ==
  /\ resp.op = "getNearbyRequests" /\ resp.status = 200
  /\ resp.body.bloodType = "A-"
  /\ Returned(resp.body) = {"r2"}
  /\ Eligible(requests["r1"], now)
  /\ requests["r1"].location = 0
  /\ requests["r1"].bloodType = "B+"

\* C17: findNearbyRequests never returns a request whose status is fulfilled,
\* expired or cancelled, nor one whose requiredBy is not strictly in the
\* future.
C17_OnlyOpenFutureRequests ==
  [][ Searched =>
        \A id \in Returned(resp'.body) :
           /\ requests[id].status \notin {"fulfilled", "expired", "cancelled"}
           /\ requests[id].requiredBy > now ]_vars

\* an active compatible request required by today is left out of the list
C17_Witness ==
  /\ resp.op = "getNearbyRequests" /\ resp.status = 200
  /\ resp.body.bloodType = None
  /\ requests["r1"].status = "active"
  /\ requests["r1"].requiredBy = now
  /\ requests["r1"].location = 0
  /\ Returned(resp.body) = {"r2"}

Rank(urgency) ==
  CASE urgency = "critical" -> 4
    [] urgency = "high" -> 3
    [] urgency = "medium" -> 2
    [] urgency = "low" -> 1

\* C18: the result of findNearbyRequests is ordered by urgency rank
\* descending (critical, high, medium, low), then by requiredBy ascending.
C18_OrderedByUrgencyRank ==
  [][ Searched =>
        \A i, j \in DOMAIN resp'.body.requests :
           i < j =>
             LET a == requests[resp'.body.requests[i]]
                 b == requests[resp'.body.requests[j]]
             IN \/ Rank(a.urgency) > Rank(b.urgency)
                \/ Rank(a.urgency) = Rank(b.urgency) /\ a.requiredBy <= b.requiredBy ]_vars

(* ---------------------------- nearby donors ---------------------------- *)
\* two registered donors: dn1 of any type, availability and place, dn2 an
\* available O+ or A+ donor at the origin or away from it
InitNearbyDonors ==
  /\ now = Today
  /\ \E bloodType1 \in BloodTypes, bloodType2 \in {"O+", "A+"},
        isAvailable \in BOOLEAN, place1 \in Places, place2 \in Places :
        donors = [id \in DonorIds |->
                    IF id = "dn1"
                    THEN [NewDonor("u1", bloodType1, place1) EXCEPT
                            !.isAvailable = isAvailable]
                    ELSE NewDonor("u2", bloodType2, place2)]
  /\ requests = [id \in RequestIds |-> NoDoc]
  /\ donations = [d \in DonationIds |-> NoDoc]
  /\ comp = IdleComp
  /\ notified = {}
  /\ NoSide
  /\ certificates = {}
  /\ procs = [p \in Procs |-> IdleProc]
  /\ resp = NoResp

\* requesters search for donors from the origin
NextNearbyDonors ==
  \E point \in {Absent, 0}, maxDistance \in Radii, bloodType \in BloodTypes \cup {None} :
     getNearbyDonors(point, maxDistance, bloodType)

SpecNearbyDonors == InitNearbyDonors /\ [][NextNearbyDonors]_vars

\* C19: findNearbyDonors returns exactly the donors with isAvailable = true
\* within the radius and, when a bloodType is given, with exactly that blood
\* type.
C19_AvailableExactTypeDonors ==
  [][ (resp'.op = "getNearbyDonors" /\ resp'.status = 200) =>
        {resp'.body.donors[i] : i \in DOMAIN resp'.body.donors} =
          {id \in DonorIds :
             /\ ~donors[id].absent
             /\ donors[id].isAvailable = TRUE
             /\ Distance(donors[id].location, resp'.body.point)
                  <= resp'.body.maxDistance
             /\ resp'.body.bloodType \in BloodTypes
                  => donors[id].bloodType = resp'.body.bloodType} ]_vars

\* a search for O+ donors returns the O+ donor and leaves out the available
\* O- donor beside them
C19_Witness ==
  /\ resp.op = "getNearbyDonors" /\ resp.status = 200
  /\ resp.body.bloodType = "O+"
  /\ resp.body.donors = <<"dn2">>
  /\ donors["dn1"].isAvailable
  /\ donors["dn1"].bloodType = "O-"
  /\ donors["dn1"].location = 0

(* ---------------------------- notifications ---------------------------- *)
\* the donor of u1 with a completed and safe donation, a second donor, and no
\* blood request yet
InitNotify ==
  /\ now = Today
  /\ \E bloodType \in {"O+", "A+"}, place \in Places :
        donors = [id \in DonorIds |->
                    IF id = "dn1" THEN NewDonor("u1", bloodType, place)
                    ELSE NewDonor("admin", "O+", 0)]
  /\ requests = [id \in RequestIds |-> NoDoc]
  /\ donations = [d \in DonationIds |->
                    IF d = "d1" THEN CompletedSafeDonation("u1", "detailsA")
                    ELSE NoDoc]
  /\ comp = IdleComp
  /\ notified = {}
  /\ NoSide
  /\ certificates = {}
  /\ procs = [p \in Procs |-> IdleProc]
  /\ resp = NoResp

\* u2 posts blood requests while u1 has the certificate issued; every
\* notification may fail
NextNotify ==
  \/ issueByDonor
  \/ \E id \in RequestIds, bloodType \in {"O+", "A+"}, units \in {2, MaxUnits + 1},
        requiredBy \in {Today, Today + 1}, confirmed \in BOOLEAN,
        lookedUp \in BOOLEAN, deliveredTo \in SUBSET DonorIds :
        createBloodRequest("u2", id, bloodType, units, "high", requiredBy, 0,
                           confirmed, lookedUp, deliveredTo)

SpecNotify == InitNotify /\ [][NextNotify]_vars

\* C20: the outcome of the primary operation does not depend on the
\* notifications: createBloodRequest stores the request and answers 201
\* whichever of the confirmation email, the nearby-donor lookup and the donor
\* emails fail, and generateCertificate keeps the certificate and answers 201
\* when the certificate email fails.
C20_OutcomeIndependentOfNotifications ==
  [][ /\ \A id \in RequestIds :
           ( /\ resp'.op = "createBloodRequest" /\ resp'.arg = id
             /\ resp'.status # 400 )
           => /\ resp'.status = 201
              /\ requests[id].absent /\ ~requests'[id].absent
      /\ \A p \in Procs :
           (procs[p].pc = "email" /\ procs'[p].pc = "done")
           => /\ procs'[p].result = 201
              /\ \E c \in certificates' : c.donation = procs[p].donation ]_vars

\* the certificate was issued although its email failed, and a request is
\* created although a matching donor is nearby and no email about it arrived
C20_Witness ==
  /\ procs[1].pc = "done" /\ procs[1].result = 201
  /\ procs[1].error = "email failed"
  /\ \E c \in certificates : c.donation = procs[1].donation
  /\ resp.op = "createBloodRequest" /\ resp.status = 201
  /\ ~requests[resp.arg].absent
  /\ findNearbyDonorsQuery(donors, requests[resp.arg].location,
                           DefaultMaxDistance, requests[resp.arg].bloodType) # {}
  /\ \A m \in notified : m.about # resp.arg

(* ------------------------ donor notifications -------------------------- *)
\* the users of a town's donors
Crowd ==
  <<"c01", "c02", "c03", "c04", "c05", "c06", "c07", "c08", "c09", "c10", "c11",
    "c12", "c13", "c14", "c15", "c16", "c17", "c18", "c19", "c20", "c21", "c22",
    "c23", "c24">>

\* donors 1 to 21 are available O+ donors spread over the first kilometres,
\* donor 21 as far as donor 20 or farther, or unavailable; donor 22 is
\* unavailable, donor 23 lives beyond the radius, donor 24 is B-
InitFanout ==
  /\ now = Today
  /\ \E tie \in BOOLEAN, isAvailable \in BOOLEAN :
        donors = [i \in DOMAIN Crowd |->
                    CASE i <= MaxNotified -> NewDonor(Crowd[i], "O+", i)
                      [] i = MaxNotified + 1 ->
                           [NewDonor(Crowd[i], "O+", IF tie THEN i - 1 ELSE i)
                              EXCEPT !.isAvailable = isAvailable]
                      [] i = MaxNotified + 2 ->
                           [NewDonor(Crowd[i], "O+", 0) EXCEPT !.isAvailable = FALSE]
                      [] i = MaxNotified + 3 -> NewDonor(Crowd[i], "O+", 51)
                      [] OTHER -> NewDonor(Crowd[i], "B-", 0)]
  /\ requests = [id \in RequestIds |-> NoDoc]
  /\ donations = [d \in DonationIds |-> NoDoc]
  /\ comp = IdleComp
  /\ notified = {}
  /\ NoSide
  /\ certificates = {}
  /\ procs = [p \in Procs |-> IdleProc]
  /\ resp = NoResp

\* u2 posts blood requests; the donor emails settle together
NextFanout ==
  \/ \E id \in RequestIds, bloodType \in {"O+", "B-"}, place \in {0, 40},
        requiredBy \in {Today, Today + 1} :
        createBloodRequest_create(1, "u2", id, bloodType, 2, "high", requiredBy, place)
  \/ createBloodRequest_confirm(1)
  \/ \E delivered \in BOOLEAN : createBloodRequest_confirmed(1, delivered)
  \/ \E lookedUp \in BOOLEAN : createBloodRequest_lookup(1, lookedUp)
  \/ /\ calls[1].pc = "awaitAll"
     /\ \E deliveredTo \in {{}, calls[1].pending} :
           createBloodRequest_settle(1, calls[1].pending, deliveredTo)
  \/ createBloodRequest_respond(1)
  \/ ResetCall(1)

SpecFanout == InitFanout /\ [][NextFanout]_vars

\* the step in which a createBloodRequest handler issues its donor emails
Dispatches(s) ==
  /\ calls[s].op = "createBloodRequest" /\ calls[s].pc = "lookup"
  /\ calls'[s].pc = "awaitAll"

\* C21: for each created blood request at most 20 donor-notification sends
\* are issued, each to a distinct donor, and every notified donor is
\* available, within 50 km of the request location, and has exactly the
\* request's blood type.
C21_AtMostTwentyMatchingRecipients ==
  [][ \A s \in CallSlots :
        Dispatches(s) =>
          LET sent == calls'[s].sent
              request == requests[calls[s].request]
          IN /\ Len(sent) <= 20
             /\ \A i, j \in DOMAIN sent : i # j => sent[i] # sent[j]
             /\ \A i \in DOMAIN sent :
                  /\ donors[sent[i]].isAvailable
                  /\ Distance(donors[sent[i]].location, request.location) <= 50000
                  /\ donors[sent[i]].bloodType = request.bloodType ]_vars

\* twenty sends are issued where twenty-one donors match, and none goes to
\* the unavailable donor or to the donor beyond the radius
C21_Witness ==
  /\ calls[1].op = "createBloodRequest" /\ calls[1].pc = "awaitAll"
  /\ Len(calls[1].sent) = 20
  /\ Cardinality(findNearbyDonorsQuery(donors, requests[calls[1].request].location,
                                       DefaultMaxDistance,
                                       requests[calls[1].request].bloodType)) = 21
  /\ \A i \in DOMAIN calls[1].sent : calls[1].sent[i] \notin {22, 23}

(* ------------------------- waiting for emails -------------------------- *)
\* u2 posts blood requests; the donor emails settle one after another or
\* together
NextDispatch ==
  \/ \E id \in RequestIds, bloodType \in {"O+", "A+"},
        requiredBy \in {Today, Today + 1} :
        createBloodRequest_create(1, "u2", id, bloodType, 2, "high", requiredBy, 0)
  \/ createBloodRequest_confirm(1)
  \/ \E delivered \in BOOLEAN : createBloodRequest_confirmed(1, delivered)
  \/ \E lookedUp \in BOOLEAN : createBloodRequest_lookup(1, lookedUp)
  \/ \E settled \in SUBSET DonorIds, deliveredTo \in SUBSET DonorIds :
        createBloodRequest_settle(1, settled, deliveredTo)
  \/ createBloodRequest_respond(1)
  \/ ResetCall(1)

SpecDispatch == InitNotify /\ [][NextDispatch]_vars

\* a createBloodRequest handler has issued an email that has not settled yet
EmailPending(s) ==
  /\ calls[s].op = "createBloodRequest"
  /\ \/ calls[s].pc = "awaitConfirmation"
     \/ calls[s].pc = "awaitAll" /\ calls[s].pending # {}

\* C22: notification dispatch does not block the primary response: while an
\* email of a createBloodRequest is still pending the success response can
\* be delivered, the response never waits for an email send to complete.
C22_ResponseNeverWaitsForEmail ==
  \A s \in CallSlots : EmailPending(s) => ENABLED createBloodRequest_respond(s)

(* --------------------------- inventory status -------------------------- *)
InitInventory ==
  /\ now = Today
  /\ inventory = [id \in InventoryIds |-> NoDoc]
  /\ parked = IdleComp
  /\ calls = [s \in CallSlots |-> IdleCall]
  /\ donors = [id \in DonorIds |-> NoDoc]
  /\ requests = [id \in RequestIds |-> NoDoc]
  /\ donations = [d \in DonationIds |-> NoDoc]
  /\ comp = IdleComp
  /\ notified = {}
  /\ certificates = {}
  /\ procs = [p \in Procs |-> IdleProc]
  /\ resp = NoResp

\* the units, expiry dates and statuses the admin sends
UnitInputs == {Absent, 0, 3, 8}
ReservedInputs == {Absent, 0, 2}
ExpiryInputs == {Absent, Today, Today + 1, Today + 70}

\* the admin creates and edits the entry as days pass
NextInventory ==
  \/ \E id \in InventoryIds, unitsAvailable \in UnitInputs,
        unitsReserved \in ReservedInputs, expiryDate \in ExpiryInputs,
        status \in {None, "Available"} :
        \/ createBloodInventory(id, unitsAvailable, unitsReserved, expiryDate, status)
        \/ updateBloodInventory(id, unitsAvailable, unitsReserved, expiryDate, status)
  \/ \E t \in LaterDays : Elapse(t)

SpecInventory == InitInventory /\ [][NextInventory]_vars

\* a step that writes the entry id
Written(id) ==
  /\ resp'.arg = id
  /\ \/ resp'.op = "createBloodInventory" /\ resp'.status = 201
     \/ resp'.op = "updateBloodInventory" /\ resp'.status = 200

\* C23: immediately after every write to a BloodInventory entry the stored
\* status is the value derived from unitsAvailable, minimumThreshold and
\* expiryDate alone: whatever unitsReserved is, and whatever status the
\* client sent or the entry had before.
C23_StatusDerivedOnEveryWrite ==
  [][ \A id \in InventoryIds :
        Written(id) =>
          \A reserved \in {0, 2} :
             inventory'[id].status =
               preSaveStatus([inventory'[id] EXCEPT !.unitsReserved = reserved],
                             now') ]_vars

(* ------------------------- one donor per user -------------------------- *)
\* no donor is registered yet
InitRegister ==
  /\ now = Today
  /\ donors = [id \in DonorIds |-> NoDoc]
  /\ requests = [id \in RequestIds |-> NoDoc]
  /\ donations = [d \in DonationIds |-> NoDoc]
  /\ comp = IdleComp
  /\ notified = {}
  /\ NoSide
  /\ certificates = {}
  /\ procs = [p \in Procs |-> IdleProc]
  /\ resp = NoResp

\* two registration requests at a time
NextRegister ==
  \/ \E s \in CallSlots, u \in {"u1", "u2"} : registerDonor_find(s, u)
  \/ \E s \in CallSlots, id \in DonorIds, bloodType \in {"O+", "A-", "X"},
        place \in Places :
        registerDonor_create(s, id, bloodType, place)
  \/ \E s \in CallSlots : ResetCall(s)

SpecRegister == InitRegister /\ [][NextRegister]_vars

\* C24: in every reachable state there is at most one Donor profile per
\* User, also when two registerDonor requests of the same user have both
\* passed the existing-donor check; the losing request creates no Donor.
C24_OneDonorPerUser ==
  \A u \in Users : Cardinality(DonorOfUser(u)) <= 1

\* two requests of one user were both past the check; one registered the
\* donor, the other was refused and left nothing behind
C24_Witness ==
  /\ calls[1].op = "registerDonor" /\ calls[2].op = "registerDonor"
  /\ calls[1].user = calls[2].user
  /\ calls[1].pc = "done" /\ calls[1].result = 201
  /\ calls[2].pc = "done" /\ calls[2].result = 500
  /\ Cardinality(DonorOfUser(calls[1].user)) = 1

(* --------------------------- malformed queries ------------------------- *)
\* the blood types a query string can carry: two of the enum, one outside
\* it, or none
TypeInputs == {None, "O+", "AB-", "X"}

\* the places a query string can carry
PointInputs == {Absent, OutOfRange, 0}

\* a donor and a request, each at the origin or away from it
InitNearbyInputs ==
  /\ now = Today
  /\ \E bloodType \in {"O+", "AB-"}, place \in Places :
        donors = [id \in DonorIds |->
                    IF id = "dn1" THEN NewDonor("u1", bloodType, place) ELSE NoDoc]
  /\ \E bloodType \in {"O+", "AB-"}, place \in Places :
        requests = [id \in RequestIds |->
                      IF id = "r1"
                      THEN NewRequest("u2", bloodType, 2, "high", Today + 1, place)
                      ELSE NoDoc]
  /\ donations = [d \in DonationIds |-> NoDoc]
  /\ comp = IdleComp
  /\ notified = {}
  /\ NoSide
  /\ certificates = {}
  /\ procs = [p \in Procs |-> IdleProc]
  /\ resp = NoResp

\* anyone queries both endpoints with any query string
NextNearbyInputs ==
  \/ \E point \in PointInputs, maxDistance \in Radii, bloodType \in TypeInputs :
        getNearbyDonors(point, maxDistance, bloodType)
  \/ \E point \in PointInputs, maxDistance \in Radii, bloodType \in TypeInputs :
        getNearbyRequests(point, maxDistance, bloodType)

SpecNearbyInputs == InitNearbyInputs /\ [][NextNearbyInputs]_vars

\* a query with coordinates out of range or with a blood type outside the enum
Malformed(point, bloodType) ==
  /\ point # Absent
  /\ point = OutOfRange \/ bloodType \notin BloodTypes \cup {None}

\* C25: a nearby-donors or nearby-requests query whose coordinates are out
\* of range or whose blood type is not one of the eight fails with a
\* validation error (400); it is never answered with success nor with a
\* generic server error.
C25_MalformedQueryIsValidationError ==
  [][ \A point \in PointInputs, maxDistance \in Radii, bloodType \in TypeInputs :
        ( /\ Malformed(point, bloodType)
          /\ \/ getNearbyDonors(point, maxDistance, bloodType)
             \/ getNearbyRequests(point, maxDistance, bloodType) )
        => resp'.status = 400 ]_vars

(* ------------------------- counting completions ------------------------ *)
\* the admin completes donations in two requests at a time
NextComplete ==
  \/ completeDonation
  \/ completeDonation_yield

SpecComplete == InitRequest /\ [][NextComplete]_vars

\* no completeDonation request is between its read and its last write
Quiet == comp.pc \in {"idle", "done"} /\ parked.pc \in {"idle", "done"}

CompletedFor(id) ==
  {d \in DonationIds : /\ ~donations[d].absent
                       /\ donations[d].bloodRequest = id
                       /\ donations[d].status = "completed"}

\* C26: when donations change status only through completeDonation, then
\* after any interleaving of completeDonation requests the request's
\* unitsFulfilled equals the number of its completed donations: no donation
\* is counted twice and no completion is lost.
C26_FulfilledCountsCompletedDonations ==
  Quiet => \A id \in RequestIds :
             ~requests[id].absent =>
               requests[id].unitsFulfilled = Cardinality(CompletedFor(id))

(* ------------------------- status and counters ------------------------- *)
\* C27: in every reachable state a blood request's status is consistent
\* with its counters: fulfilled implies unitsFulfilled >= unitsNeeded,
\* partially_fulfilled implies 0 < unitsFulfilled < unitsNeeded, and active
\* implies unitsFulfilled = 0, after any sequence of completeDonation and
\* updateBloodRequest operations.
C27_StatusMatchesCounters ==
  \A id \in RequestIds :
     ~requests[id].absent =>
        LET r == requests[id]
        IN /\ r.status = "fulfilled" => r.unitsFulfilled >= r.unitsNeeded
           /\ r.status = "partially_fulfilled" =>
                r.unitsFulfilled > 0 /\ r.unitsFulfilled < r.unitsNeeded
           /\ r.status = "active" => r.unitsFulfilled = 0

(* ------------------------- becoming available again -------------------- *)
\* the donor of user u is unavailable and last donated at least 56 days ago
RestedUnavailable(u) ==
  \E id \in DonorOfUser(u) :
     /\ ~donors[id].isAvailable
     /\ donors[id].lastDonationDate # NoDate
     /\ now - donors[id].lastDonationDate >= 56

\* C28: a donor who became unavailable after a donation can become
\* available again: for a donor with isAvailable = false whose
\* lastDonationDate is at least 56 days in the past, updateDonorAvailability
\* with isAvailable = true succeeds and sets isAvailable to true.
C28_AvailableAgainAfterGap ==
  [][ \A u \in Users :
        (RestedUnavailable(u) /\ updateDonorAvailability(u, TRUE))
        => /\ resp'.status = 200
           /\ \A id \in DonorOfUser(u) : donors'[id].isAvailable ]_vars

(* ------------------------- responses to a request ---------------------- *)
\* two donors, a request of one unit of another user and a donation
\* scheduled for it
InitRespond ==
  /\ now = Today
  /\ donors = [id \in DonorIds |->
                 IF id = "dn1" THEN NewDonor("u1", "O+", 0)
                 ELSE NewDonor("u2", "A+", 0)]
  /\ \E urgency \in Urgency :
        requests = [id \in RequestIds |->
                      IF id = "r1"
                      THEN NewRequest("admin", "A+", 1, urgency, Today + 40, 0)
                      ELSE NoDoc]
  /\ donations = [d \in DonationIds |->
                    IF d = "d1"
                    THEN ScheduledDonation("u2", "detailsA", "dn2", "r1", Today)
                    ELSE NoDoc]
  /\ comp = IdleComp
  /\ notified = {}
  /\ NoSide
  /\ certificates = {}
  /\ procs = [p \in Procs |-> IdleProc]
  /\ resp = NoResp

\* donors respond in two requests at a time while the admin completes the
\* donation
NextRespond ==
  \/ \E s \in CallSlots, u \in Users, id \in RequestIds : respondToRequest_find(s, u, id)
  \/ \E s \in CallSlots : respondToRequest_save(s)
  \/ \E s \in CallSlots : ResetCall(s)
  \/ completeDonation

SpecRespond == InitRespond /\ [][NextRespond]_vars

\* C29: a blood request holds at most one response per donor, also when the
\* same donor submits two respondToRequest calls concurrently; and a
\* response is only ever added while the request's status is active or
\* partially_fulfilled.
C29_OneResponsePerDonorWhileOpen ==
  [][ \A id \in RequestIds :
        (~requests[id].absent /\ ~requests'[id].absent) =>
          LET after == requests'[id].responses
          IN /\ \A i, j \in DOMAIN after : i # j => after[i] # after[j]
             /\ Len(after) > Len(requests[id].responses) =>
                  requests[id].status \in {"active", "partially_fulfilled"} ]_vars

(* ------------------------- what the public reads show ------------------ *)
\* the values a donor's medical history and the user's email and phone take
Histories == {"noIllness", "illness"}
Emails == {"mailA", "mailB"}
Phones == {"phoneA", "phoneB"}

\* two registered donors with any medical history, email and phone
InitDisclose ==
  /\ now = Today
  /\ \E place \in Places :
     \E private \in [DonorIds -> Histories \X Emails \X Phones] :
        donors = [id \in DonorIds |->
                    [NewDonor(IF id = "dn1" THEN "u1" ELSE "u2", "O+",
                              IF id = "dn1" THEN 0 ELSE place)
                       EXCEPT !.medicalHistory = private[id][1],
                              !.email = private[id][2],
                              !.phone = private[id][3]]]
  /\ requests = [id \in RequestIds |-> NoDoc]
  /\ donations = [d \in DonationIds |-> NoDoc]
  /\ comp = IdleComp
  /\ notified = {}
  /\ NoSide
  /\ certificates = {}
  /\ procs = [p \in Procs |-> IdleProc]
  /\ resp = NoResp

\* anyone reads a donor or the donors near a point; donors switch their
\* availability
NextDisclose ==
  \/ \E caller \in Users \cup {None}, id \in DonorIds : getDonor(caller, id)
  \/ \E maxDistance \in Radii, bloodType \in {None, "O+"} :
       getNearbyDonors(0, maxDistance, bloodType)
  \/ \E u \in Users, available \in BOOLEAN : updateDonorAvailability(u, available)

SpecDisclose == InitDisclose /\ [][NextDisclose]_vars

\* the donors with the medical history, email and phone of every donor who
\* is not the caller set to fixed values
Scrubbed(dons, caller) ==
  [id \in DOMAIN dons |->
     IF dons[id].absent \/ dons[id].user = caller THEN dons[id]
     ELSE [dons[id] EXCEPT !.medicalHistory = "noIllness", !.email = "mailA",
                           !.phone = "phoneA"]]

\* C30: a donor's email, phone and medical history are never disclosed
\* through getDonor and getNearbyDonors to a caller who is not that donor:
\* the response is the one the caller would get in the state that differs
\* only in those fields of the other users' donors.
C30_PublicReadsHidePrivateFields ==
  [][ /\ \A caller \in Users \cup {None}, id \in DonorIds :
           (getDonor(caller, id) /\ resp'.status = 200) =>
              resp'.body = getDonorBody(Scrubbed(donors, caller), caller, id)
      /\ \A maxDistance \in Radii, bloodType \in {None, "O+"} :
           (getNearbyDonors(0, maxDistance, bloodType) /\ resp'.status = 200) =>
              resp'.body.documents
                 = NearbyDocuments(Scrubbed(donors, None), resp'.body.donors) ]_vars

====
